---- MODULE Spec2Model ----
(***************************************************************************)
(* Decision and monitoring engine of the trading bot:                      *)
(*   PoolFilters.execute          (src/filters/pool-filters.ts)            *)
(*   RouteGateFilter              (src/unnamed/part_001)                   *)
(*   OnChainFilter                (src/unnamed/part_002)                   *)
(*   DexScreenerFilter            (src/filters/dexscreener.filter.ts)      *)
(*   SellManager, PositionManager (src/unnamed/part_000)                   *)
(*   Bot.buy, Bot.sell, Bot.stop  (src/unnamed/part_003)                   *)
(* Every asynchronous function is cut at its await points: one action is   *)
(* the synchronous run of a handler from one await to the next.            *)
(***************************************************************************)
EXTENDS Integers, Sequences, FiniteSets, TLC

\* ---------------------------------------------------------------- bounds
MaxTime == 1          \* Date.now() advances at most this many TTL periods
MaxStops == 1         \* number of SellManager.stop() calls
MaxBuys == 2          \* number of Bot.buy() calls
MaxSells == 2         \* number of Bot.sell() calls
MaxTimeout == 4       \* largest FILTER_REPEAT_TIMEOUT tried
MaxInterval == 2      \* largest FILTER_REPEAT_INTERVAL tried
MaxRepeatCount == 3   \* largest FILTER_REPEAT_COUNT tried
MaxWait == 3          \* largest DEXSCREENER_MAX_WAIT_MINUTES tried
MaxCheckInterval == 2 \* largest DEXSCREENER_CHECK_INTERVAL tried
MaxTook == 1          \* longest a DexScreener request takes
MaxPoolSize == 12     \* largest pool size, MIN_POOL_SIZE and MAX_POOL_SIZE tried

\* ------------------------------------------------------ program constants
TTL_MINUTES == 30
TAKE_PROFIT == 50
STOP_LOSS == 30
MAX_PRICE_IMPACT == 15
maxPositions == 50
cleanupBatch == 10

Mints == {"m1", "m2"}
Buyers == {1, 2}          \* concurrent Bot.buy invocations
Sellers == {1, 2}          \* concurrent Bot.sell invocations
Loops == 1..(MaxStops + 1) \* SellManager.startMonitoring activations
Prices == {7, 10, 15}     \* quotes of the price oracle, in tenths
BuyPrice == 10
BuyAmount == 100
Reasons == {"take_profit", "stop_loss", "ttl", "manual"}

VARIABLES
  cfg,                \* BotConfig and utils/constants, fixed at start
  env,                \* what the surroundings of the bot do in this run
  now,                \* Date.now(), in minutes
  positions,          \* PositionManager.positions (Map, insertion order)
  sellConditions,     \* SellManager.sellConditions (Map, insertion order)
  isRunning,          \* SellManager.isRunning
  loops,              \* activations of SellManager.startMonitoring
  mutexLocked,        \* Bot.mutex: held
  mutexQueue,         \* Bot.mutex: waiters of acquire()
  sellExecutionCount, \* Bot.sellExecutionCount
  buyers,             \* activations of Bot.buy
  sellers,            \* activations of Bot.sell
  stops,              \* SellManager.stop() calls so far
  calls,              \* Bot.buy() and Bot.sell() calls so far
  attempted,          \* was executeSell entered for the token id's position
  zeroed,             \* token ids whose watch entry executeSell removed for a
                      \* zero balance
  filt,               \* one activation of PoolFilters.execute on its own
  store,              \* log of the last PositionManager call made directly
  exec                \* one activation of a filter stage's execute on its own

vars == <<cfg, env, now, positions, sellConditions, isRunning, loops, mutexLocked,
          mutexQueue, sellExecutionCount, buyers, sellers, stops, calls, attempted,
          zeroed, filt, store, exec>>

monVars == <<sellConditions, isRunning, loops, stops, attempted, zeroed>>
botVars == <<mutexLocked, mutexQueue, sellExecutionCount, buyers, sellers, calls>>
aloneVars == <<filt, store, exec>>

\* ------------------------------------------------------------ small helpers
Undefined == <<>>
Some(v) == <<v>>

\* Math.ceil(a / b) for a >= 0, b > 0
Ceil(a, b) == (a + b - 1) \div b

\* ========================================================= PositionManager
\* index of mint's entry in a Map kept as a sequence, 0 when absent
IndexOf(map, mint) ==
  IF \E i \in 1..Len(map) : map[i].mint = mint
  THEN CHOOSE i \in 1..Len(map) : map[i].mint = mint
  ELSE 0

\* Map.set: replaces the value of an existing key in place, appends a new key
MapSet(map, mint, value) ==
  IF IndexOf(map, mint) = 0 THEN Append(map, value)
  ELSE [map EXCEPT ![IndexOf(map, mint)] = value]

\* Map.delete
MapDelete(map, mint) ==
  LET keep == {i \in 1..Len(map) : map[i].mint # mint}
      RECURSIVE Build(_)
      Build(i) == IF i > Len(map) THEN <<>>
                  ELSE IF i \in keep THEN <<map[i]>> \o Build(i + 1)
                  ELSE Build(i + 1)
  IN Build(1)

hasPosition(ps, mint) == IndexOf(ps, mint) # 0

getPosition(ps, mint) == ps[IndexOf(ps, mint)]

NewPosition(mint, symbol, buyPrice, buyAmount, buySignature, t) ==
  [mint |-> mint, symbol |-> symbol, buyPrice |-> buyPrice,
   buyAmount |-> buyAmount, buyTimestamp |-> t, buySignature |-> buySignature,
   status |-> "active",
   currentPrice |-> Undefined, currentValue |-> Undefined,
   pnl |-> Undefined, pnlPercent |-> Undefined,
   sellReason |-> Undefined, sellSignature |-> Undefined,
   sellTimestamp |-> Undefined]

\* CleanupVictims without the filter on status
CleanupVictimsAnyStatus(ps) ==
  LET all == 1..Len(ps)
      Before(j, i) == \/ ps[j].buyTimestamp < ps[i].buyTimestamp
                      \/ ps[j].buyTimestamp = ps[i].buyTimestamp /\ j < i
      Rank(i) == Cardinality({j \in all : Before(j, i)})
  IN {i \in all : Rank(i) < cleanupBatch}

\* CleanupVictims without the sort: the Map's insertion order
CleanupVictimsUnsorted(ps) ==
  LET closed == {i \in 1..Len(ps) : ps[i].status # "active"}
      Rank(i) == Cardinality({j \in closed : j < i})
  IN {i \in closed : Rank(i) < cleanupBatch}

\* the entries cleanupOldPositions deletes: the first cleanupBatch entries
\* that are not active, in ascending buyTimestamp (the sort is stable)
CleanupVictims(ps) ==
  LET closed == {i \in 1..Len(ps) : ps[i].status # "active"}
      Before(j, i) == \/ ps[j].buyTimestamp < ps[i].buyTimestamp
                      \/ ps[j].buyTimestamp = ps[i].buyTimestamp /\ j < i
      Rank(i) == Cardinality({j \in closed : Before(j, i)})
  IN {i \in closed : Rank(i) < cleanupBatch}

cleanupOldPositions(ps) ==
  LET victims == CleanupVictims(ps)
      RECURSIVE Build(_)
      Build(i) == IF i > Len(ps) THEN <<>>
                  ELSE IF i \in victims THEN Build(i + 1)
                  ELSE <<ps[i]>> \o Build(i + 1)
  IN Build(1)

addPosition(ps, mint, symbol, buyPrice, buyAmount, buySignature, t) ==
  LET set == MapSet(ps, mint,
                    NewPosition(mint, symbol, buyPrice, buyAmount, buySignature, t))
  IN IF Len(set) > maxPositions THEN cleanupOldPositions(set) ELSE set

\* updatePosition with buyValue taken as the buy price alone
updatePositionPerToken(ps, mint, currentPrice, currentValue) ==
  IF ~hasPosition(ps, mint) THEN ps
  ELSE LET p == getPosition(ps, mint)
           buyValue == p.buyPrice
           pnl == currentValue - buyValue
       IN [ps EXCEPT ![IndexOf(ps, mint)] =
             [p EXCEPT !.currentPrice = Some(currentPrice),
                       !.currentValue = Some(currentValue),
                       !.pnl = Some(pnl),
                       !.pnlPercent = Some(<<pnl * 100, buyValue>>)]]

\* prices are in tenths, so currentValue and buyValue are in tenths too and
\* pnlPercent = pnl / buyValue * 100 is kept as the pair <<pnl * 100, buyValue>>
updatePosition(ps, mint, currentPrice, currentValue) ==
  IF ~hasPosition(ps, mint) THEN ps
  ELSE LET p == getPosition(ps, mint)
           buyValue == p.buyPrice * p.buyAmount
           pnl == currentValue - buyValue
       IN [ps EXCEPT ![IndexOf(ps, mint)] =
             [p EXCEPT !.currentPrice = Some(currentPrice),
                       !.currentValue = Some(currentValue),
                       !.pnl = Some(pnl),
                       !.pnlPercent = Some(<<pnl * 100, buyValue>>)]]

closePosition(ps, mint, sellReason, sellSignature, t) ==
  IF ~hasPosition(ps, mint) THEN ps
  ELSE [ps EXCEPT ![IndexOf(ps, mint)] =
          [@ EXCEPT !.status = "sold",
                    !.sellReason = Some(sellReason),
                    !.sellSignature = Some(sellSignature),
                    !.sellTimestamp = Some(t)]]

getActivePositions(ps) == {i \in 1..Len(ps) : ps[i].status = "active"}

\* the fields addPosition stamps
OpenFields(p) == <<p.symbol, p.buyPrice, p.buyAmount, p.buyTimestamp,
                   p.buySignature>>

\* ====================================================== PoolFilters.execute
\* Filters with the slowest stage pushed first
FiltersSlowestFirst(c) ==
  (IF c.enableDexScreener THEN <<"DexScreener">> ELSE <<>>)
  \o <<"OnChain">>
  \o (IF c.enableRouteGate THEN <<"RouteGate">> ELSE <<>>)

\* this.filters, as the constructor fills it
Filters(c) ==
  (IF c.enableRouteGate THEN <<"RouteGate">> ELSE <<>>)
  \o <<"OnChain">>
  \o (IF c.enableDexScreener THEN <<"DexScreener">> ELSE <<>>)

MaxAttempts(c) == Ceil(c.repeatTimeout, c.repeatInterval)

\* RoundEnd with a counter that a failing round leaves as it is
RoundEndCumulative(c, consecutiveMatches, attempt, allPassed) ==
  LET m == IF allPassed THEN consecutiveMatches + 1 ELSE consecutiveMatches
  IN IF allPassed /\ m >= c.repeatCount
       THEN [consecutiveMatches |-> m, next |-> "true"]
     ELSE IF attempt < Ceil(c.repeatTimeout, c.repeatInterval) - 1
       THEN [consecutiveMatches |-> m, next |-> "sleep"]
     ELSE [consecutiveMatches |-> m, next |-> "false"]

\* the end of one round of the for loop, lines 81-99: the new counter and
\* RoundEnd that returns true only when the last round is over
RoundEndWaitsOut(c, consecutiveMatches, attempt, allPassed) ==
  LET m == IF allPassed THEN consecutiveMatches + 1 ELSE 0
  IN IF attempt < Ceil(c.repeatTimeout, c.repeatInterval) - 1
       THEN [consecutiveMatches |-> m, next |-> "sleep"]
     ELSE IF allPassed /\ m >= c.repeatCount
       THEN [consecutiveMatches |-> m, next |-> "true"]
     ELSE [consecutiveMatches |-> m, next |-> "false"]

\* where the loop goes: "true" (return true), "sleep" (another round follows)
\* or "false" (the loop is over, return false)
RoundEnd(c, consecutiveMatches, attempt, allPassed) ==
  LET m == IF allPassed THEN consecutiveMatches + 1 ELSE 0
  IN IF allPassed /\ m >= c.repeatCount
       THEN [consecutiveMatches |-> m, next |-> "true"]
     ELSE IF attempt < MaxAttempts(c) - 1
       THEN [consecutiveMatches |-> m, next |-> "sleep"]
     ELSE [consecutiveMatches |-> m, next |-> "false"]

\* filt.script[r] is the first stage that fails in round r, 0 when none does
StageOk(f) == f.script[f.attempt + 1] # f.stage

FilterIdle(script) ==
  [pc |-> "idle", attempt |-> 0, consecutiveMatches |-> 0, stage |-> 0,
   result |-> Undefined, script |-> script, rounds |-> 0, slept |-> 0]

FilterOff == FilterIdle(<<>>)

\* execute() up to its first await
ExecuteStart ==
  /\ filt.pc = "idle"
  /\ filt' = IF Len(Filters(cfg)) = 0
               THEN [filt EXCEPT !.pc = "done", !.result = Some(TRUE)]
             ELSE IF 0 < MaxAttempts(cfg)
               THEN [filt EXCEPT !.pc = "stage", !.stage = 1, !.rounds = 1]
             ELSE [filt EXCEPT !.pc = "done", !.result = Some(FALSE)]
  /\ UNCHANGED <<cfg, env, now, positions, store, exec>>
  /\ UNCHANGED monVars
  /\ UNCHANGED botVars

\* one filter.execute() has returned
ExecuteStage ==
  /\ filt.pc = "stage"
  /\ LET last == filt.stage = Len(Filters(cfg))
         end == RoundEnd(cfg, filt.consecutiveMatches, filt.attempt, StageOk(filt))
     IN filt' =
          IF StageOk(filt) /\ ~last
            THEN [filt EXCEPT !.stage = @ + 1]
          ELSE IF end.next = "sleep"
            THEN [filt EXCEPT !.pc = "sleep", !.stage = 0,
                              !.consecutiveMatches = end.consecutiveMatches]
          ELSE [filt EXCEPT !.pc = "done", !.stage = 0,
                            !.consecutiveMatches = end.consecutiveMatches,
                            !.result = Some(end.next = "true")]
  /\ UNCHANGED <<cfg, env, now, positions, store, exec>>
  /\ UNCHANGED monVars
  /\ UNCHANGED botVars

\* sleep(FILTER_REPEAT_INTERVAL) is over: the next round starts
ExecuteWake ==
  /\ filt.pc = "sleep"
  /\ filt' = [filt EXCEPT !.pc = "stage", !.attempt = @ + 1, !.stage = 1,
                          !.rounds = @ + 1, !.slept = @ + 1]
  /\ UNCHANGED <<cfg, env, now, positions, store, exec>>
  /\ UNCHANGED monVars
  /\ UNCHANGED botVars

\* ============================================================ filter stages
\* one call of a stage's execute, as PoolFilters.execute makes it in round
\* attempt with consecutiveMatches rounds passed in a row before it; failed
\* records that a call to an upstream service timed out, threw or found no
\* account
ExecOff ==
  [kind |-> "none", pc |-> "off", input |-> <<>>, answer |-> <<>>, elapsed |-> 0,
   polls |-> 0, result |-> "none", failed |-> FALSE, attempt |-> 0,
   consecutiveMatches |-> 0, next |-> "none"]

ExecStart(kind, input, attempt, consecutiveMatches) ==
  [ExecOff EXCEPT !.kind = kind, !.pc = "start", !.input = input,
                  !.attempt = attempt, !.consecutiveMatches = consecutiveMatches]

ExecUnchanged ==
  /\ UNCHANGED <<cfg, env, now, positions, filt, store>>
  /\ UNCHANGED monVars
  /\ UNCHANGED botVars

\* ---- RouteGateFilter.execute
RouteGateAnswers ==
  {[kind |-> "route", priceImpactPct |-> p] : p \in {10, 15, 20}}
  \cup {[kind |-> k, priceImpactPct |-> 0] : k \in {"empty", "timeout", "error"}}

\* the try block, lines 26-68: axios.get throws on a timeout (ECONNABORTED)
\* and on any other failure of the request
RouteGateTry(answer) ==
  IF answer.kind \in {"timeout", "error"} THEN "throw"
  ELSE IF answer.kind = "empty" THEN "fail"
  ELSE IF answer.priceImpactPct > MAX_PRICE_IMPACT THEN "fail"
  ELSE "pass"

\* RouteGateCatch without the catch block
RouteGateRethrow(r) == r

\* the catch block, lines 70-90: both branches return ok: false
RouteGateCatch(r) == IF r = "throw" THEN "fail" ELSE r

RouteGateExecute(answer) == RouteGateCatch(RouteGateTry(answer))

RouteGateCall(answer) ==
  /\ exec.kind = "RouteGate" /\ exec.pc = "start"
  /\ exec' = [exec EXCEPT !.pc = "returned", !.answer = answer,
                          !.result = RouteGateExecute(answer),
                          !.failed = answer.kind \in {"timeout", "error"}]
  /\ ExecUnchanged

\* ---- OnChainFilter.execute
OnChainChecks ==
  <<"checkTokenProgram", "checkMetadataImmutable", "checkMintRenounced",
    "checkFreezeAuthority", "checkPoolSize", "checkPoolAge",
    "checkHolderConcentration", "checkLPProtection">>

\* what a check's upstream call can do: answer so that the check passes
\* ("ok") or returns its rejection ("reject"), find no account ("missing"),
\* or throw ("throw"); checkPoolAge rejects nothing and
\* checkHolderConcentration calls nothing
OnChainAnswers(check) ==
  IF check = "checkHolderConcentration" THEN {"ok"}
  ELSE IF check = "checkPoolAge" THEN {"ok", "missing", "throw"}
  ELSE IF check \in {"checkPoolSize", "checkLPProtection"} THEN {"ok", "reject", "throw"}
  ELSE {"ok", "reject", "missing", "throw"}

\* one check: every one of them has its own try/catch returning ok: false
OnChainCheck(answer) == IF answer = "ok" THEN "pass" ELSE "fail"

\* the try block of execute, lines 34-78: the first check that is not ok ends it
OnChainTry(answers) ==
  IF \E i \in 1..Len(answers) : OnChainCheck(answers[i]) # "pass"
    THEN "fail" ELSE "pass"

\* the catch block of execute, lines 80-83
OnChainCatch(r) == IF r = "throw" THEN "fail" ELSE r

OnChainExecute(answers) == OnChainCatch(OnChainTry(answers))

\* the checks up to check number first answer ok and that one answers how
\* (first = 0: all of them answer ok)
OnChainCall(first, how) ==
  /\ exec.kind = "OnChain" /\ exec.pc = "start"
  /\ LET answers == [i \in 1..(IF first = 0 THEN Len(OnChainChecks) ELSE first) |->
                      IF i = first THEN how ELSE "ok"]
     IN exec' = [exec EXCEPT !.pc = "returned", !.answer = answers,
                             !.result = OnChainExecute(answers),
                             !.failed = first # 0 /\ how \in {"missing", "throw"}]
  /\ ExecUnchanged

\* ---- OnChainFilter.checkPoolSize
\* the decimal digits of a whole number n >= 0: what TokenAmount.toExact()
\* and Number.prototype.toString() give for it
RECURSIVE Digits(_)
Digits(n) == IF n < 10 THEN <<n>> ELSE Append(Digits(n \div 10), n % 10)

\* a < b on strings of digits: by the first position where they differ, a
\* proper prefix being the smaller
StringLess(a, b) ==
  LET differ == {i \in 1..Len(a) : i <= Len(b) /\ a[i] # b[i]}
  IN IF differ = {} THEN Len(a) < Len(b)
     ELSE LET i == CHOOSE j \in differ : \A k \in differ : j <= k
          IN a[i] < b[i]

\* lines 170-187
checkPoolSize(poolSize, minSize, maxSize) ==
  IF minSize > 0 /\ StringLess(Digits(poolSize), Digits(minSize)) THEN "fail"
  ELSE IF maxSize > 0 /\ StringLess(Digits(maxSize), Digits(poolSize)) THEN "fail"
  ELSE "pass"

CheckPoolSizeCall(poolSize, minSize, maxSize) ==
  /\ exec.kind = "checkPoolSize" /\ exec.pc = "start"
  /\ exec' = [exec EXCEPT !.pc = "returned",
                          !.answer = [poolSize |-> poolSize, minSize |-> minSize,
                                      maxSize |-> maxSize],
                          !.result = checkPoolSize(poolSize, minSize, maxSize)]
  /\ ExecUnchanged

\* ---- DexScreenerFilter.execute
DexScreenerAnswers ==
  {[kind |-> "data", pairs |-> p, logo |-> l, socials |-> c] :
     p \in BOOLEAN, l \in BOOLEAN, c \in BOOLEAN}
  \cup {[kind |-> k, pairs |-> FALSE, logo |-> FALSE, socials |-> FALSE] :
          k \in {"notfound", "error"}}

\* lines 84-108: the answer has a pair with the required logo and socials
DexScreenerMeets(input, answer) ==
  /\ answer.kind = "data"
  /\ answer.pairs
  /\ input.requireLogo => answer.logo
  /\ input.requireSocials => answer.socials

\* DexScreenerPollsAgain without the deadline
DexScreenerPollsForever(elapsed, maxWaitTime) == TRUE

\* the condition of the while loop, line 77
DexScreenerPollsAgain(elapsed, maxWaitTime) == elapsed < maxWaitTime

\* the head of the while loop: the next request, or the timeout result of
\* lines 135-138
DexScreenerLoop(e) ==
  IF DexScreenerPollsAgain(e.elapsed, e.input.maxWaitTime)
    THEN [e EXCEPT !.pc = "poll"]
  ELSE [e EXCEPT !.pc = "returned", !.result = "fail"]

\* execute is called: lines 69-77
DexScreenerCall ==
  /\ exec.kind = "DexScreener" /\ exec.pc = "start"
  /\ exec' = DexScreenerLoop(exec)
  /\ ExecUnchanged

\* axios.get has answered or thrown after took units of time (its timeout
\* bounds the wait): return ok: true, or go to sleep(DEXSCREENER_CHECK_INTERVAL)
DexScreenerPoll(answer, took) ==
  /\ exec.kind = "DexScreener" /\ exec.pc = "poll"
  /\ LET e == [exec EXCEPT !.answer = answer, !.polls = @ + 1,
                           !.elapsed = @ + took,
                           !.failed = @ \/ answer.kind \in {"notfound", "error"}]
     IN exec' = IF DexScreenerMeets(exec.input, answer)
                  THEN [e EXCEPT !.pc = "returned", !.result = "pass"]
                ELSE [e EXCEPT !.pc = "sleep"]
  /\ ExecUnchanged

\* the sleep is over: continue with the loop
DexScreenerWake ==
  /\ exec.kind = "DexScreener" /\ exec.pc = "sleep"
  /\ exec.elapsed < MaxWait + MaxTook
  /\ exec' = DexScreenerLoop([exec EXCEPT !.elapsed = @ + exec.input.checkInterval])
  /\ ExecUnchanged

\* ---- PoolFilters.execute takes the stage's result, taken here as the last
\* stage of the round: lines 69-100; a stage that threw would end execute
\* with its exception
StageReturn ==
  /\ exec.kind \in {"RouteGate", "OnChain", "DexScreener"}
  /\ exec.pc = "returned"
  /\ LET end == RoundEnd(cfg, exec.consecutiveMatches, exec.attempt,
                         exec.result = "pass")
     IN exec' = IF exec.result = "throw"
                  THEN [exec EXCEPT !.pc = "round", !.next = "aborted"]
                ELSE [exec EXCEPT !.pc = "round", !.next = end.next,
                                  !.consecutiveMatches = end.consecutiveMatches]
  /\ ExecUnchanged

\* ============================================================== SellManager
\* a SellCondition; position is the Position object handed to
\* addSellCondition (its fields read by checkSellCondition never change)
NewCondition(mint, position, t) ==
  [mint |-> mint, checkStartTime |-> t,
   position |-> [symbol |-> position.symbol, buyPrice |-> position.buyPrice,
                 buyAmount |-> position.buyAmount]]

addSellCondition(conds, mint, position, t) ==
  MapSet(conds, mint, NewCondition(mint, position, t))

removeSellCondition(conds, mint) == MapDelete(conds, mint)

LoopOff == [pc |-> "off", conditions |-> <<>>, idx |-> 0, reason |-> "none",
            currentTime |-> 0]

\* elapsedMinutes >= TTL_MINUTES, line 105
TtlElapsed(condition, t) == t - condition.checkStartTime >= TTL_MINUTES

\* Evaluate with the price query before the TTL check
EvaluatePriceFirst(conditions, idx, t) ==
  IF idx > Len(conditions)
    THEN [pc |-> "sleep", conditions |-> <<>>, idx |-> 0, reason |-> "none",
          currentTime |-> 0]
  ELSE [pc |-> "price", conditions |-> conditions, idx |-> idx, reason |-> "none",
        currentTime |-> t]

\* the for loop of startMonitoring reaches entry idx of its snapshot and runs
\* checkSellCondition up to its first await: currentTime is read (line 100)
\* and the TTL check sends it into executeSell ("sell": awaiting the delay and
\* the token account) or to the price query ("price"); past the last entry
\* the loop sleeps
Evaluate(conditions, idx, t) ==
  IF idx > Len(conditions)
    THEN [pc |-> "sleep", conditions |-> <<>>, idx |-> 0, reason |-> "none",
          currentTime |-> 0]
  ELSE IF TtlElapsed(conditions[idx], t)
    THEN [pc |-> "sell", conditions |-> conditions, idx |-> idx, reason |-> "ttl",
          currentTime |-> t]
  ELSE [pc |-> "price", conditions |-> conditions, idx |-> idx, reason |-> "none",
        currentTime |-> t]

\* Trigger with strict comparisons
TriggerStrict(position, currentPrice) ==
  LET buyValue == position.buyPrice * position.buyAmount
      currentValue == currentPrice * position.buyAmount
  IN IF (currentValue - buyValue) * 100 > TAKE_PROFIT * buyValue
       THEN "take_profit"
     ELSE IF (currentValue - buyValue) * 100 < (0 - STOP_LOSS) * buyValue
       THEN "stop_loss"
     ELSE "none"

\* the trigger checkSellCondition derives from a quote, lines 119-155;
\* pnlPercent >= TAKE_PROFIT and pnlPercent <= -STOP_LOSS without the division
Trigger(position, currentPrice) ==
  LET buyValue == position.buyPrice * position.buyAmount
      currentValue == currentPrice * position.buyAmount
  IN IF (currentValue - buyValue) * 100 >= TAKE_PROFIT * buyValue
       THEN "take_profit"
     ELSE IF (currentValue - buyValue) * 100 <= (0 - STOP_LOSS) * buyValue
       THEN "stop_loss"
     ELSE "none"

\* executeSellConditions without the removeSellCondition of line 237
executeSellConditionsKept(conds, mint, outcome) ==
  IF outcome = "zero" THEN removeSellCondition(conds, mint) ELSE conds

\* what executeSell does once the token account is read, lines 208-244:
\* "throw" is getAssociatedTokenAddress / getAccount failing (caught, line
\* 239), "zero" an empty balance, "ok" the simulated sale
executeSellConditions(conds, mint, outcome) ==
  IF outcome = "throw" THEN conds ELSE removeSellCondition(conds, mint)

executeSellPositions(ps, mint, reason, outcome, t) ==
  IF outcome = "ok"
    THEN closePosition(ps, mint, reason, "simulated_sell_signature", t)
  ELSE ps

\* the activation a new monitoring loop takes
FreeLoop ==
  CHOOSE l \in Loops : loops[l].pc = "off" /\ \A k \in Loops : loops[k].pc = "off" => l <= k

\* the entry loop record lp is evaluating
Current(lp) == lp.conditions[lp.idx]

\* executeSell is in flight in the monitor
MonitorSelling == \E l \in Loops : loops[l].pc = "sell"

\* history: a loop has just entered executeSell
EntersSell(before, after) ==
  /\ after.pc = "sell"
  /\ before.pc # "sell" \/ before.idx # after.idx

\* history: some loop has just entered executeSell for mint
EntersSellFor(mint, loopsAfter) ==
  \E l \in Loops : /\ EntersSell(loops[l], loopsAfter[l])
                   /\ Current(loopsAfter[l]).mint = mint

\* history: has executeSell been entered for the token id since its position
\* was opened
MarkSells(loopsAfter, opened) ==
  [m \in Mints |-> \/ m \notin opened /\ attempted[m]
                   \/ EntersSellFor(m, loopsAfter)]

\* checkSellPositions with updatePosition behind the returns of the
\* take-profit and stop-loss branches
checkSellPositionsUntriggered(ps, condition, quote) ==
  IF quote = 0 \/ Trigger(condition.position, quote) # "none" THEN ps
  ELSE updatePosition(ps, condition.mint, quote,
                      quote * condition.position.buyAmount)

\* checkSellPositions without the return of line 113
checkSellPositionsUnguarded(ps, condition, quote) ==
  updatePosition(ps, condition.mint, quote, quote * condition.position.buyAmount)

\* what checkSellCondition does to the positions with the answer of
\* getCurrentPrice, lines 111-124: nothing when the price is unavailable
checkSellPositions(ps, condition, quote) ==
  IF quote = 0 THEN ps
  ELSE updatePosition(ps, condition.mint, quote,
                      quote * condition.position.buyAmount)

\* getCurrentPrice has answered: quote 0 stands for null (unavailable)
MonitorPrice(l, quote) ==
  /\ loops[l].pc = "price"
  /\ quote \in env.quotes
  /\ LET lp == loops[l]
         condition == Current(lp)
         trigger == Trigger(condition.position, quote)
         after == [loops EXCEPT ![l] =
                     IF quote # 0 /\ trigger # "none"
                       THEN [lp EXCEPT !.pc = "sell", !.reason = trigger]
                     ELSE Evaluate(lp.conditions, lp.idx + 1, now)]
     IN /\ positions' = checkSellPositions(positions, condition, quote)
        /\ loops' = after
        /\ attempted' = MarkSells(after, {})
  /\ UNCHANGED <<cfg, env, now, sellConditions, isRunning, stops, zeroed>>
  /\ UNCHANGED botVars
  /\ UNCHANGED aloneVars

\* afterExecuteSell without the catch blocks of lines 157 and 239: the
\* exception reaches the catch block of startMonitoring, line 88, which sleeps
afterExecuteSellUncaught(lp, outcome, t) ==
  IF outcome = "throw"
    THEN [pc |-> "sleep", conditions |-> <<>>, idx |-> 0, reason |-> "none",
          currentTime |-> 0]
  ELSE Evaluate(lp.conditions, lp.idx + 1, t)

\* where the loop goes when executeSell is over: whatever its outcome (an
\* exception is caught at line 239), the for loop of line 83 goes on to the
\* next entry of the snapshot
afterExecuteSell(lp, outcome, t) == Evaluate(lp.conditions, lp.idx + 1, t)

\* history: the token ids whose watch entry the zero-balance branch of
\* executeSell, lines 215-219, has removed
executeSellZeroed(z, mint, outcome) ==
  IF outcome = "zero" THEN z \cup {mint} ELSE z

\* executeSell has read the token account (or failed to)
MonitorSell(l, outcome) ==
  /\ loops[l].pc = "sell"
  /\ LET lp == loops[l]
         condition == Current(lp)
         after == [loops EXCEPT ![l] = afterExecuteSell(lp, outcome, now)]
     IN /\ positions' = executeSellPositions(positions, condition.mint, lp.reason,
                                             outcome, now)
        /\ sellConditions' = executeSellConditions(sellConditions, condition.mint,
                                                   outcome)
        /\ loops' = after
        /\ attempted' = MarkSells(after, {})
        /\ zeroed' = executeSellZeroed(zeroed, condition.mint, outcome)
  /\ UNCHANGED <<cfg, env, now, isRunning, stops>>
  /\ UNCHANGED botVars
  /\ UNCHANGED aloneVars

\* keepsRunning of a loop that makes one cycle only
keepsRunningOnce(running, conds) == FALSE

\* the while condition of startMonitoring, line 79
keepsRunning(running, conds) == running /\ Len(conds) > 0

\* sleep(PRICE_CHECK_INTERVAL) is over: the while condition of line 79
MonitorWake(l) ==
  /\ loops[l].pc = "sleep"
  /\ LET after == [loops EXCEPT ![l] =
                     IF keepsRunning(isRunning, sellConditions)
                       THEN Evaluate(sellConditions, 1, now)
                     ELSE LoopOff]
     IN /\ loops' = after
        /\ attempted' = MarkSells(after, {})
        /\ isRunning' = keepsRunning(isRunning, sellConditions)
  /\ UNCHANGED <<cfg, env, now, positions, sellConditions, stops, zeroed>>
  /\ UNCHANGED botVars
  /\ UNCHANGED aloneVars

\* SellManager.stop
Stop ==
  /\ stops < env.stops
  /\ stops' = stops + 1
  /\ isRunning' = FALSE
  /\ sellConditions' = <<>>
  /\ UNCHANGED <<cfg, env, now, positions, loops, attempted, zeroed>>
  /\ UNCHANGED botVars
  /\ UNCHANGED aloneVars

\* Watch without lines 62-65: no loop is started
WatchWithoutStart(mint, position) ==
  /\ sellConditions' = addSellCondition(sellConditions, mint, position, now)
  /\ UNCHANGED <<isRunning, loops, attempted>>

\* addSellCondition, lines 37-66: the watch entry is set and, when no loop
\* is running, startMonitoring runs up to its first await
Watch(mint, position) ==
  LET watched == addSellCondition(sellConditions, mint, position, now)
      after == IF isRunning THEN loops
               ELSE [loops EXCEPT ![FreeLoop] = Evaluate(watched, 1, now)]
  IN /\ isRunning \/ \E l \in Loops : loops[l].pc = "off"
     /\ sellConditions' = watched
     /\ isRunning' = TRUE
     /\ loops' = after
     /\ attempted' = MarkSells(after, {mint})

\* ====================================================================== Bot
CriticalPcs == {"market", "filter", "fsleep", "swap", "alert", "erralert"}

BuyerIdle(out) ==
  [pc |-> "idle", mint |-> "m1", i |-> 0, attempt |-> 0, consecutiveMatches |-> 0,
   out |-> out, acquired |-> 0, released |-> 0]

SellerIdle(out) == [pc |-> "idle", mint |-> "m1", i |-> 0, out |-> out]

\* Gate without the call of mutex.acquire()
GateWithoutAcquire(c, locked, count) ==
  IF c.oneTokenAtATime /\ (locked \/ count > 0) THEN "skip" ELSE "enter"

\* Gate that does not look at mutex.isLocked(): acquire() waits for the mutex
GateQueues(c, locked, count) ==
  IF c.oneTokenAtATime
    THEN IF count > 0 THEN "skip" ELSE "acquire"
  ELSE "enter"

\* the single-flight gate, lines 163-173: "skip" returns, "acquire" calls
\* mutex.acquire(), "enter" goes on without the mutex
Gate(c, locked, count) ==
  IF c.oneTokenAtATime
    THEN IF locked \/ count > 0 THEN "skip" ELSE "acquire"
  ELSE "enter"

\* BuyReleases with the release after the swap loop instead of in a finally
\* block: the early returns of the try skip it
BuyReleasesAfterLoop(c, out) == c.oneTokenAtATime /\ out \notin {"filtered", "test"}

\* sellExit with the decrement after the swap loop instead of in a finally
\* block
sellExitAfterLoop(c, count, out) ==
  IF c.oneTokenAtATime /\ out \notin {"missing", "zero"} THEN count - 1 ELSE count

\* the finally block of buy, lines 291-295, reached with outcome out: does it
\* call mutex.release()
BuyReleases(c, out) == c.oneTokenAtATime

\* sellExecutionCount on entry to sell, lines 344-346, and in its finally
\* block, lines 426-430, reached with outcome out
sellEnter(c, count) == IF c.oneTokenAtATime THEN count + 1 ELSE count

sellExit(c, count, out) == IF c.oneTokenAtATime THEN count - 1 ELSE count

\* Confirmed taking a transaction that was sent for one that was confirmed
ConfirmedOrSent(result) == result # "throw"

\* result.confirmed, lines 230 and 394; "throw" is this.swap() throwing
Confirmed(result) == result = "confirmed"

\* RetryAgain with <= for <
RetryAgainInclusive(i, max) == i + 1 <= max

\* the header of the swap loops, lines 211 and 376, after attempt i failed:
\* i++, then i < max
RetryAgain(i, max) == i + 1 < max

\* the buyer whose acquire() a release resolves, 0 when nobody waits
NextWaiter == IF mutexQueue = <<>> THEN 0 ELSE Head(mutexQueue)

\* buy() returns from inside the try with outcome out: the finally block runs;
\* mutex.release() hands the mutex to the first waiter, if any
BuyReturn(b, me, out) ==
  LET done == [BuyerIdle(out) EXCEPT !.mint = me.mint, !.acquired = me.acquired,
                 !.released = me.released + (IF BuyReleases(cfg, out) THEN 1 ELSE 0)]
  IN IF BuyReleases(cfg, out)
       THEN IF NextWaiter = 0
              THEN /\ mutexLocked' = FALSE
                   /\ mutexQueue' = mutexQueue
                   /\ buyers' = [buyers EXCEPT ![b] = done]
            ELSE /\ mutexLocked' = TRUE
                 /\ mutexQueue' = Tail(mutexQueue)
                 /\ buyers' = [buyers EXCEPT ![b] = done,
                                 ![NextWaiter] = [@ EXCEPT !.pc = "market",
                                                           !.acquired = @ + 1]]
     ELSE /\ UNCHANGED <<mutexLocked, mutexQueue>>
          /\ buyers' = [buyers EXCEPT ![b] = done]

\* buy() returns before the try with outcome out: no finally block
BuyDecline(b, mint, out) ==
  /\ buyers' = [buyers EXCEPT ![b] = [BuyerIdle(out) EXCEPT !.mint = mint]]
  /\ UNCHANGED <<mutexLocked, mutexQueue>>

\* buy() is called for a detected pool: lines 132-145, up to getBalance
BuyStart(b, mint) ==
  /\ buyers[b].pc = "idle"
  /\ \A k \in Buyers : buyers[k].pc = "idle" => b <= k
  /\ calls.buy < env.buys
  /\ calls' = [calls EXCEPT !.buy = @ + 1,
                            !.overlap = @ \/ \E k \in Buyers : buyers[k].pc # "idle"]
  /\ IF hasPosition(positions, mint)
       THEN BuyDecline(b, mint, "duplicate")
     ELSE /\ buyers' = [buyers EXCEPT ![b] =
                          [BuyerIdle("none") EXCEPT !.pc = "pregate", !.mint = mint]]
          /\ UNCHANGED <<mutexLocked, mutexQueue>>
  /\ UNCHANGED <<cfg, env, now, positions, sellExecutionCount, sellers>>
  /\ UNCHANGED monVars
  /\ UNCHANGED aloneVars

\* getBalance and the autoBuyDelay sleep are over: lines 146-173
BuyGate(b, enough, listed) ==
  /\ buyers[b].pc = "pregate"
  /\ LET me == buyers[b]
         gate == Gate(cfg, mutexLocked, sellExecutionCount)
     IN IF ~enough
          THEN BuyDecline(b, me.mint, "balance")
        ELSE IF cfg.useSnipeList /\ ~listed
          THEN BuyDecline(b, me.mint, "snipe")
        ELSE IF gate = "skip"
          THEN BuyDecline(b, me.mint, "busy")
        ELSE IF gate = "acquire" /\ mutexLocked
          THEN /\ buyers' = [buyers EXCEPT ![b] = [me EXCEPT !.pc = "lockwait"]]
               /\ mutexQueue' = Append(mutexQueue, b)
               /\ UNCHANGED mutexLocked
        ELSE IF gate = "acquire"
          THEN /\ buyers' = [buyers EXCEPT ![b] = [me EXCEPT !.pc = "market",
                                                             !.acquired = 1]]
               /\ mutexLocked' = TRUE
               /\ UNCHANGED mutexQueue
        ELSE /\ buyers' = [buyers EXCEPT ![b] = [me EXCEPT !.pc = "market"]]
             /\ UNCHANGED <<mutexLocked, mutexQueue>>
  /\ UNCHANGED <<cfg, env, now, positions, sellExecutionCount, sellers, calls>>
  /\ UNCHANGED monVars
  /\ UNCHANGED aloneVars

\* simulatesBuy with the test-mode branch missing
simulatesBuyNever(c) == FALSE

\* line 194: in test mode the buy is simulated
simulatesBuy(c) == c.testMode

\* the pool is admitted: test mode, lines 194-209, or the first swap of the
\* loop of lines 211-282
BuyAdmitted(b) ==
  IF simulatesBuy(cfg)
    THEN /\ positions' = addPosition(positions, buyers[b].mint, "TEST", 1,
                                     BuyAmount, 0, now)
         /\ attempted' = [attempted EXCEPT ![buyers[b].mint] = FALSE]
         /\ BuyReturn(b, buyers[b], "test")
  ELSE IF 0 < cfg.maxBuyRetries
    THEN /\ buyers' = [buyers EXCEPT ![b] = [@ EXCEPT !.pc = "swap", !.i = 0]]
         /\ UNCHANGED <<positions, attempted, mutexLocked, mutexQueue>>
  ELSE /\ BuyReturn(b, buyers[b], "exhausted")
       /\ UNCHANGED <<positions, attempted>>

\* skipsFilterMatch for every configuration
skipsFilterMatchAlways(c) == TRUE

\* line 182: filterMatch is called only when the snipe list is not in use
skipsFilterMatch(c) == c.useSnipeList

\* marketStorage.get / getAssociatedTokenAddress are over: lines 176-192
BuyMarket(b, ok) ==
  /\ buyers[b].pc = "market"
  /\ IF ~ok
       THEN /\ buyers' = [buyers EXCEPT ![b] = [@ EXCEPT !.pc = "erralert"]]
            /\ UNCHANGED <<positions, attempted, mutexLocked, mutexQueue>>
     ELSE IF skipsFilterMatch(cfg) \/ Len(Filters(cfg)) = 0
       THEN BuyAdmitted(b)
     ELSE IF 0 < MaxAttempts(cfg)
       THEN /\ buyers' = [buyers EXCEPT ![b] = [@ EXCEPT !.pc = "filter",
                            !.attempt = 0, !.consecutiveMatches = 0]]
            /\ UNCHANGED <<positions, attempted, mutexLocked, mutexQueue>>
     ELSE /\ BuyReturn(b, buyers[b], "filtered")
          /\ UNCHANGED <<positions, attempted>>
  /\ UNCHANGED <<cfg, env, now, sellExecutionCount, sellers, calls>>
  /\ UNCHANGED <<sellConditions, isRunning, loops, stops, zeroed>>
  /\ UNCHANGED aloneVars

\* one round of poolFilters.execute is over (all its stages, in order)
BuyFilter(b, allPassed) ==
  /\ buyers[b].pc = "filter"
  /\ LET me == buyers[b]
         end == RoundEnd(cfg, me.consecutiveMatches, me.attempt, allPassed)
     IN IF end.next = "true"
          THEN BuyAdmitted(b)
        ELSE IF end.next = "sleep"
          THEN /\ buyers' = [buyers EXCEPT ![b] = [me EXCEPT !.pc = "fsleep",
                               !.consecutiveMatches = end.consecutiveMatches]]
               /\ UNCHANGED <<positions, attempted, mutexLocked, mutexQueue>>
        ELSE /\ BuyReturn(b, me, "filtered")
             /\ UNCHANGED <<positions, attempted>>
  /\ UNCHANGED <<cfg, env, now, sellExecutionCount, sellers, calls>>
  /\ UNCHANGED <<sellConditions, isRunning, loops, stops, zeroed>>
  /\ UNCHANGED aloneVars

\* sleep(FILTER_REPEAT_INTERVAL) is over
BuyFilterWake(b) ==
  /\ buyers[b].pc = "fsleep"
  /\ buyers' = [buyers EXCEPT ![b] = [@ EXCEPT !.pc = "filter", !.attempt = @ + 1]]
  /\ UNCHANGED <<cfg, env, now, positions, mutexLocked, mutexQueue,
                 sellExecutionCount, sellers, calls>>
  /\ UNCHANGED monVars
  /\ UNCHANGED aloneVars

\* this.swap() is over: confirmed, not confirmed, or thrown (lines 218-281);
\* a confirmed swap goes on (past calculateBuyPrice and getTokenSymbol, which
\* touch no state of the bot) to addPosition and addSellCondition, and waits
\* for sendAlert
BuySwap(b, result) ==
  /\ buyers[b].pc = "swap"
  /\ LET me == buyers[b]
         added == addPosition(positions, me.mint, "SYM", BuyPrice, BuyAmount, b, now)
     IN IF Confirmed(result)
          THEN /\ positions' = added
               /\ IF hasPosition(added, me.mint)
                    THEN Watch(me.mint, getPosition(added, me.mint))
                  ELSE UNCHANGED <<sellConditions, isRunning, loops, attempted>>
               /\ buyers' = [buyers EXCEPT ![b] = [me EXCEPT !.pc = "alert"]]
               /\ UNCHANGED <<mutexLocked, mutexQueue>>
        ELSE IF RetryAgain(me.i, cfg.maxBuyRetries)
          THEN /\ buyers' = [buyers EXCEPT ![b] = [me EXCEPT !.i = @ + 1]]
               /\ UNCHANGED <<positions, sellConditions, isRunning, loops, attempted,
                              mutexLocked, mutexQueue>>
        ELSE /\ BuyReturn(b, me, "exhausted")
             /\ UNCHANGED <<positions, sellConditions, isRunning, loops, attempted>>
  /\ UNCHANGED <<cfg, env, now, stops, zeroed, sellExecutionCount, sellers, calls>>
  /\ UNCHANGED aloneVars

\* sendAlert is over (it never throws): break, then the finally block
BuyAlert(b) ==
  /\ buyers[b].pc = "alert"
  /\ BuyReturn(b, buyers[b], "bought")
  /\ UNCHANGED <<cfg, env, now, positions, sellExecutionCount, sellers, calls>>
  /\ UNCHANGED monVars
  /\ UNCHANGED aloneVars

\* the sendAlert of the catch block is over, lines 283-295
BuyErrAlert(b) ==
  /\ buyers[b].pc = "erralert"
  /\ BuyReturn(b, buyers[b], "failed")
  /\ UNCHANGED <<cfg, env, now, positions, sellExecutionCount, sellers, calls>>
  /\ UNCHANGED monVars
  /\ UNCHANGED aloneVars

\* ----------------------------------------------------------------- Bot.sell
\* sell() returns with outcome out: the finally block of lines 426-430
SellReturn(s, me, out) ==
  /\ sellers' = [sellers EXCEPT ![s] = [SellerIdle(out) EXCEPT !.mint = me.mint]]
  /\ sellExecutionCount' = sellExit(cfg, sellExecutionCount, out)

\* sell() is called for a wallet change: lines 341-351, up to poolStorage.get
SellStart(s, mint) ==
  /\ sellers[s].pc = "idle"
  /\ \A k \in Sellers : sellers[k].pc = "idle" => s <= k
  /\ calls.sell < env.sells
  /\ calls' = [calls EXCEPT !.sell = @ + 1]
  /\ sellers' = [sellers EXCEPT ![s] = [SellerIdle("none") EXCEPT !.pc = "pool",
                                                               !.mint = mint]]
  /\ sellExecutionCount' = sellEnter(cfg, sellExecutionCount)
  /\ UNCHANGED <<cfg, env, now, positions, mutexLocked, mutexQueue, buyers>>
  /\ UNCHANGED monVars
  /\ UNCHANGED aloneVars

\* sellProceeds for a sell() that takes the mutex of buy()
sellProceedsUnlocked(locked) == ~locked

\* sell() never calls this.mutex.acquire(): nothing in lines 341-431 waits
\* for the lock
sellProceeds(locked) == TRUE

\* poolStorage.get, the autoSellDelay sleep and marketStorage.get are over:
\* lines 353-376, up to the first swap; "missing" and "zero" return, "throw"
\* is caught at line 424
SellPool(s, outcome) ==
  /\ sellers[s].pc = "pool"
  /\ sellProceeds(mutexLocked)
  /\ IF outcome = "ok" /\ 0 < cfg.maxSellRetries
       THEN /\ sellers' = [sellers EXCEPT ![s] = [@ EXCEPT !.pc = "swap", !.i = 0]]
            /\ UNCHANGED sellExecutionCount
     ELSE SellReturn(s, sellers[s], IF outcome = "ok" THEN "exhausted" ELSE outcome)
  /\ UNCHANGED <<cfg, env, now, positions, mutexLocked, mutexQueue, buyers, calls>>
  /\ UNCHANGED monVars
  /\ UNCHANGED aloneVars

\* this.swap() is over: lines 383-422
SellSwap(s, result) ==
  /\ sellers[s].pc = "swap"
  /\ LET me == sellers[s]
     IN IF Confirmed(result)
          THEN SellReturn(s, me, "sold")
        ELSE IF RetryAgain(me.i, cfg.maxSellRetries)
          THEN /\ sellers' = [sellers EXCEPT ![s] = [me EXCEPT !.i = @ + 1]]
               /\ UNCHANGED sellExecutionCount
        ELSE SellReturn(s, me, "exhausted")
  /\ UNCHANGED <<cfg, env, now, positions, mutexLocked, mutexQueue, buyers, calls>>
  /\ UNCHANGED monVars
  /\ UNCHANGED aloneVars

\* -------------------------------------------------------------------- time
\* Date.now() is compared with TTL_MINUTES only (line 105): the clock is
\* observed in steps of one TTL period
Tick ==
  /\ now < env.time * TTL_MINUTES
  /\ now' = now + TTL_MINUTES
  /\ UNCHANGED <<cfg, env, positions>>
  /\ UNCHANGED monVars
  /\ UNCHANGED botVars
  /\ UNCHANGED aloneVars

\* ------------------------------------------------- PositionManager, directly
StoreInputs == {[symbol |-> "S1", buyPrice |-> 10, buySignature |-> 1],
                [symbol |-> "S2", buyPrice |-> 20, buySignature |-> 2]}

AddPositionCall(mint, in) ==
  /\ positions' = addPosition(positions, mint, in.symbol, in.buyPrice, BuyAmount,
                              in.buySignature, now)
  /\ store' = [op |-> "addPosition", mint |-> mint]
  /\ UNCHANGED <<cfg, env, now, filt, exec>>
  /\ UNCHANGED monVars
  /\ UNCHANGED botVars

UpdatePositionCall(mint, currentPrice) ==
  /\ positions' = updatePosition(positions, mint, currentPrice,
                                 currentPrice * BuyAmount)
  /\ store' = [op |-> "updatePosition", mint |-> mint]
  /\ UNCHANGED <<cfg, env, now, filt, exec>>
  /\ UNCHANGED monVars
  /\ UNCHANGED botVars

ClosePositionCall(mint, sellReason) ==
  /\ positions' = closePosition(positions, mint, sellReason, "sig", now)
  /\ store' = [op |-> "closePosition", mint |-> mint]
  /\ UNCHANGED <<cfg, env, now, filt, exec>>
  /\ UNCHANGED monVars
  /\ UNCHANGED botVars

\* ---------------------------------------------------------- specifications
FilterDefaults == [repeatCount |-> 1, repeatInterval |-> 1, repeatTimeout |-> 2,
                   enableRouteGate |-> TRUE, enableDexScreener |-> TRUE]

BotConfig(one, snipe, test, f) ==
  [oneTokenAtATime |-> one, useSnipeList |-> snipe, testMode |-> test,
   maxBuyRetries |-> 2, maxSellRetries |-> 2,
   repeatCount |-> f.repeatCount, repeatInterval |-> f.repeatInterval,
   repeatTimeout |-> f.repeatTimeout, enableRouteGate |-> f.enableRouteGate,
   enableDexScreener |-> f.enableDexScreener]

DefaultConfig == BotConfig(TRUE, FALSE, FALSE, FilterDefaults)

Configs == {DefaultConfig,
            BotConfig(FALSE, FALSE, FALSE, FilterDefaults),
            BotConfig(TRUE, FALSE, TRUE, FilterDefaults),
            BotConfig(TRUE, TRUE, FALSE, FilterDefaults)}

\* the runs explored: acquisitions racing each other and a liquidation, and
\* liquidations racing an acquisition, under every configuration; then two
\* acquisitions followed by the monitor under the default configuration, once
\* with every quote and once with a global stop and no quote
Orchestrating == [buys |-> MaxBuys, sells |-> MaxSells - 1, stops |-> 0, time |-> 0,
                  quotes |-> {0}]
Liquidating == [buys |-> MaxBuys - 1, sells |-> MaxSells, stops |-> 0, time |-> 0,
                quotes |-> {0}]
Monitoring == [buys |-> MaxBuys, sells |-> 0, stops |-> 0, time |-> MaxTime,
               quotes |-> Prices \cup {0}]
Stopping == [buys |-> MaxBuys, sells |-> 0, stops |-> MaxStops, time |-> MaxTime,
             quotes |-> {0}]
Quiet == [buys |-> 0, sells |-> 0, stops |-> 0, time |-> MaxTime, quotes |-> {0}]

InitQuiet ==
  /\ now = 0
  /\ positions = <<>>
  /\ sellConditions = <<>>
  /\ isRunning = FALSE
  /\ loops = [l \in Loops |-> LoopOff]
  /\ mutexLocked = FALSE
  /\ mutexQueue = <<>>
  /\ sellExecutionCount = 0
  /\ buyers = [b \in Buyers |-> BuyerIdle("none")]
  /\ sellers = [s \in Sellers |-> SellerIdle("none")]
  /\ stops = 0
  /\ calls = [buy |-> 0, sell |-> 0, overlap |-> FALSE]
  /\ attempted = [m \in Mints |-> FALSE]
  /\ zeroed = {}
  /\ store = [op |-> "none", mint |-> "m1"]

InitRest ==
  /\ InitQuiet
  /\ exec = ExecOff

Init ==
  /\ \/ cfg \in Configs /\ env \in {Orchestrating, Liquidating}
     \/ cfg = DefaultConfig /\ env \in {Monitoring, Stopping}
  /\ filt = FilterOff
  /\ InitRest

Next ==
  \/ \E b \in Buyers, mint \in Mints : BuyStart(b, mint)
  \/ \E b \in Buyers, enough \in BOOLEAN, listed \in BOOLEAN : BuyGate(b, enough, listed)
  \/ \E b \in Buyers, ok \in BOOLEAN : BuyMarket(b, ok)
  \/ \E b \in Buyers, allPassed \in BOOLEAN : BuyFilter(b, allPassed)
  \/ \E b \in Buyers : BuyFilterWake(b)
  \/ \E b \in Buyers, result \in {"confirmed", "unconfirmed", "throw"} : BuySwap(b, result)
  \/ \E b \in Buyers : BuyAlert(b)
  \/ \E b \in Buyers : BuyErrAlert(b)
  \/ \E s \in Sellers, mint \in Mints : SellStart(s, mint)
  \/ \E s \in Sellers, outcome \in {"ok", "missing", "zero", "throw"} : SellPool(s, outcome)
  \/ \E s \in Sellers, result \in {"confirmed", "unconfirmed", "throw"} : SellSwap(s, result)
  \/ \E l \in Loops, quote \in Prices \cup {0} : MonitorPrice(l, quote)
  \/ \E l \in Loops, outcome \in {"ok", "zero", "throw"} : MonitorSell(l, outcome)
  \/ \E l \in Loops : MonitorWake(l)
  \/ Stop
  \/ Tick

Spec == Init /\ [][Next]_vars

\* the awaits of a sell() in flight
SellerStep(s) ==
  \/ \E outcome \in {"ok", "missing", "zero", "throw"} : SellPool(s, outcome)
  \/ \E result \in {"confirmed", "unconfirmed", "throw"} : SellSwap(s, result)

\* the storages and the transaction executor answer every sell(); nothing
\* is assumed about buy() or the monitor
SpecSellLive == Spec /\ \A s \in Sellers : WF_vars(SellerStep(s))

\* PoolFilters.execute on its own, for every configuration of the repeat
\* logic and every course of the rounds
FilterConfigs ==
  {[repeatCount |-> n, repeatInterval |-> i, repeatTimeout |-> t,
    enableRouteGate |-> r, enableDexScreener |-> d] :
     n \in 1..MaxRepeatCount, i \in 1..MaxInterval, t \in 0..MaxTimeout,
     r \in BOOLEAN, d \in BOOLEAN}

InitFilter ==
  /\ cfg \in {BotConfig(TRUE, FALSE, FALSE, f) : f \in FilterConfigs}
  /\ env = Quiet
  /\ filt \in {FilterIdle(script) :
                 script \in [1..MaxAttempts(cfg) -> 0..Len(Filters(cfg))]}
  /\ InitRest

NextFilter == ExecuteStart \/ ExecuteStage \/ ExecuteWake

SpecFilter == InitFilter /\ [][NextFilter]_vars

\* every filter.execute() returns and every sleep ends
SpecFilterLive == SpecFilter /\ WF_vars(NextFilter)

\* one stage of the pipeline on its own, called in any round of
\* PoolFilters.execute that the repeat logic can reach, with every answer of
\* its upstream services; and checkPoolSize for every size and bounds
ExecConfig ==
  BotConfig(TRUE, FALSE, FALSE,
            [repeatCount |-> 2, repeatInterval |-> 1, repeatTimeout |-> 3,
             enableRouteGate |-> TRUE, enableDexScreener |-> TRUE])

DexScreenerInputs ==
  [maxWaitTime : 0..MaxWait, checkInterval : 1..MaxCheckInterval,
   requireLogo : BOOLEAN, requireSocials : BOOLEAN]

InitExec ==
  /\ cfg = ExecConfig
  /\ env = Quiet
  /\ filt = FilterOff
  /\ InitQuiet
  /\ \/ \E kind \in {"RouteGate", "OnChain"}, attempt \in 0..(MaxAttempts(cfg) - 1) :
          \E m \in 0..(cfg.repeatCount - 1) :
            m <= attempt /\ exec = ExecStart(kind, <<>>, attempt, m)
     \/ \E input \in DexScreenerInputs, attempt \in 0..(MaxAttempts(cfg) - 1) :
          \E m \in 0..(cfg.repeatCount - 1) :
            m <= attempt /\ exec = ExecStart("DexScreener", input, attempt, m)
     \/ exec = ExecStart("checkPoolSize", <<>>, 0, 0)

NextExec ==
  \/ \E answer \in RouteGateAnswers : RouteGateCall(answer)
  \/ OnChainCall(0, "ok")
  \/ \E first \in 1..Len(OnChainChecks) :
       \E how \in OnChainAnswers(OnChainChecks[first]) \ {"ok"} : OnChainCall(first, how)
  \/ \E poolSize \in 0..MaxPoolSize, minSize \in 0..MaxPoolSize,
        maxSize \in 0..MaxPoolSize : CheckPoolSizeCall(poolSize, minSize, maxSize)
  \/ DexScreenerCall
  \/ \E answer \in DexScreenerAnswers, took \in 0..MaxTook : DexScreenerPoll(answer, took)
  \/ DexScreenerWake
  \/ StageReturn

SpecExec == InitExec /\ [][NextExec]_vars

\* every request is answered or times out and every sleep ends
SpecExecLive == SpecExec /\ WF_vars(NextExec)

\* PositionManager on its own
InitStore ==
  /\ cfg = DefaultConfig
  /\ env = Quiet
  /\ filt = FilterOff
  /\ InitRest

NextStore ==
  \/ \E mint \in Mints, in \in StoreInputs : AddPositionCall(mint, in)
  \/ \E mint \in Mints, currentPrice \in {7, 15} : UpdatePositionCall(mint, currentPrice)
  \/ \E mint \in Mints, sellReason \in {"manual", "ttl"} : ClosePositionCall(mint, sellReason)
  \/ Tick

SpecStore == InitStore /\ [][NextStore]_vars

\* PositionManager at its ceiling: the store holds maxPositions - 1 or
\* maxPositions positions, made by the calls that fill it
Id(i) == ToString(i)

Stamps == {"distinct", "paired", "reopened"}

\* Date.now() at the i-th addPosition: one call per time unit, or two
BuyTime(stamp, i) == IF stamp = "paired" THEN (i + 1) \div 2 ELSE i

\* the store after n calls of addPosition for n token ids (n is at most
\* maxPositions: no call reaches cleanupOldPositions)
Opened(n, stamp) ==
  [i \in 1..n |-> NewPosition(Id(i), "S1", BuyPrice, BuyAmount, 1, BuyTime(stamp, i))]

\* ... after which the second token id is bought again ("reopened"): Map.set
\* keeps its slot
Reopened(n, stamp) ==
  IF stamp = "reopened"
    THEN [Opened(n, stamp) EXCEPT
            ![2] = NewPosition(Id(2), "S2", BuyPrice, BuyAmount, 2, n + 1)]
  ELSE Opened(n, stamp)

\* ... and closePosition is called for the positions in the slots of set
ClosedIn(ps, set, t) ==
  [i \in 1..Len(ps) |->
     IF i \in set THEN closePosition(<<ps[i]>>, ps[i].mint, "manual", "sig", t)[1]
     ELSE ps[i]]

\* the slots closed: the k oldest, the k newest, or every third or fifth
ClosedCounts == {0, cleanupBatch - 1, cleanupBatch, cleanupBatch + 1}

ClosedSets(n) ==
  {1..k : k \in ClosedCounts} \cup {(n - k + 1)..n : k \in ClosedCounts}
    \cup {{i \in 1..n : i % 3 = 0}, {i \in 1..n : i % 5 = 0}}

Stores ==
  {ClosedIn(Reopened(n, stamp), set, n + 2) :
     n \in {maxPositions - 1, maxPositions}, stamp \in Stamps,
     set \in ClosedSets(maxPositions - 1)}

EvictMints == {Id(2), Id(maxPositions + 1), Id(maxPositions + 2)}

InitEvict ==
  /\ cfg = DefaultConfig
  /\ env = Quiet
  /\ filt = FilterOff
  /\ now = 2 * TTL_MINUTES
  /\ positions \in Stores
  /\ sellConditions = <<>>
  /\ isRunning = FALSE
  /\ loops = [l \in Loops |-> LoopOff]
  /\ mutexLocked = FALSE
  /\ mutexQueue = <<>>
  /\ sellExecutionCount = 0
  /\ buyers = [b \in Buyers |-> BuyerIdle("none")]
  /\ sellers = [s \in Sellers |-> SellerIdle("none")]
  /\ stops = 0
  /\ calls = [buy |-> 0, sell |-> 0, overlap |-> FALSE]
  /\ attempted = [m \in Mints |-> FALSE]
  /\ zeroed = {}
  /\ store = [op |-> "none", mint |-> Id(1)]
  /\ exec = ExecOff

NextEvict ==
  \/ \E mint \in EvictMints, in \in {i \in StoreInputs : i.symbol = "S2"} :
       AddPositionCall(mint, in)
  \/ \E mint \in EvictMints : UpdatePositionCall(mint, 15)
  \/ \E mint \in EvictMints : ClosePositionCall(mint, "manual")

SpecEvict == InitEvict /\ [][NextEvict]_vars

\* =================================================================== claims
\* rounds r .. r+n-1 of the script all pass
RunAt(script, r, n) == \A j \in r..(r + n - 1) : script[j] = 0

\* some n consecutive rounds of the script all pass
HasRun(script, n) == \E r \in 1..(Len(script) - n + 1) : RunAt(script, r, n)

\* the number of passing rounds that end the first k rounds of the script
RECURSIVE Trailing(_, _)
Trailing(script, k) ==
  IF k = 0 \/ script[k] # 0 THEN 0 ELSE 1 + Trailing(script, k - 1)

\* C1: execute returns true iff the first MaxAttempts rounds hold a run of
\* repeatCount consecutive all-pass rounds, and while it runs the counter is
\* the length of the run of passes that ends the rounds done so far (a
\* failing round resets it to zero)
C1_Debounce ==
  /\ filt.pc = "done" => filt.result = Some(HasRun(filt.script, cfg.repeatCount))
  /\ filt.pc = "stage" => filt.consecutiveMatches = Trailing(filt.script, filt.attempt)
  /\ filt.pc = "sleep" =>
       filt.consecutiveMatches = Trailing(filt.script, filt.attempt + 1)

\* the rounds pass, fail, pass, pass with repeatCount 2: admitted in round 4,
\* not in round 3
C1_Witness ==
  /\ filt.pc = "done" /\ filt.result = Some(TRUE)
  /\ cfg.repeatCount = 2 /\ filt.rounds = 4
  /\ filt.script[1] = 0 /\ filt.script[2] # 0

InFlight(b) == buyers[b].pc # "idle"
Critical(b) == buyers[b].pc \in CriticalPcs
Swapped(b) == buyers[b].pc \in {"swap", "alert"} \/ buyers[b].out \in {"bought", "exhausted"}

\* C2: with oneTokenAtATime, at most one buy() is between mutex.acquire() and
\* mutex.release() (the pipeline, the swaps and the alerts), and it holds
\* the mutex
C2_SingleFlight ==
  cfg.oneTokenAtATime =>
    /\ Cardinality({b \in Buyers : Critical(b)}) <= 1
    /\ \A b \in Buyers : Critical(b) => mutexLocked

\* one buy() is swapping while another is on its way to the gate
C2_Witness ==
  /\ cfg.oneTokenAtATime
  /\ \E a, b \in Buyers : buyers[a].pc = "swap" /\ buyers[b].pc = "pregate"

\* C3, as stated: of two buy() calls issued concurrently with oneTokenAtATime
\* at most one executes the swap path
C3_ExactlyOneSwaps ==
  (cfg.oneTokenAtATime /\ calls.overlap) =>
    Cardinality({b \in Buyers : Swapped(b)}) <= 1

\* C3, amended: with oneTokenAtATime a buy() that finds the mutex held (or a
\* sell() in flight) at the gate has returned there, without the mutex;
\* no buy() ever waits for the mutex; and no two buy() calls are in the swap
\* path at the same time
C3_SkippedNotQueued ==
  cfg.oneTokenAtATime =>
    /\ mutexQueue = <<>>
    /\ \A b \in Buyers :
         /\ buyers[b].pc # "lockwait"
         /\ buyers[b].out = "busy" =>
              buyers[b].pc = "idle" /\ buyers[b].acquired = 0 /\ buyers[b].released = 0
    /\ Cardinality({b \in Buyers : buyers[b].pc \in {"swap", "alert"}}) <= 1

\* one buy() was skipped at the gate while the other, issued concurrently,
\* is swapping
C3_Witness ==
  /\ cfg.oneTokenAtATime /\ calls.overlap
  /\ \E a, b \in Buyers : buyers[a].pc = "swap" /\ buyers[b].out = "busy"

\* C4: with oneTokenAtATime a buy() inside the try holds the mutex it acquired
\* and has not released it; a buy() that has returned released it exactly as
\* often as it acquired it (once, or never when it returned before the gate
\* or was skipped there); the mutex is held only while a buy() is inside
C4_LockReleased ==
  cfg.oneTokenAtATime =>
    /\ \A b \in Buyers :
         /\ Critical(b) => buyers[b].acquired = 1 /\ buyers[b].released = 0
         /\ ~Critical(b) => buyers[b].released = buyers[b].acquired
         /\ buyers[b].acquired <= 1
         /\ buyers[b].out \in {"duplicate", "balance", "snipe", "busy"} =>
              buyers[b].acquired = 0
         /\ buyers[b].out \in {"filtered", "test", "bought", "exhausted", "failed"} =>
              buyers[b].acquired = 1
    /\ mutexLocked <=> \E b \in Buyers : Critical(b)

\* one buy() has returned through the catch block and released the mutex,
\* another was skipped at the gate and released nothing
C4_Witness ==
  /\ cfg.oneTokenAtATime /\ ~mutexLocked
  /\ \E a, b \in Buyers :
       /\ buyers[a].out = "failed" /\ buyers[a].released = 1
       /\ buyers[b].out = "busy" /\ buyers[b].released = 0

\* a liquidation is in flight: a sell() call or the monitor's executeSell
LiquidationInFlight == (\E s \in Sellers : sellers[s].pc # "idle") \/ MonitorSelling

\* C5: with oneTokenAtATime no buy() passes the gate while a liquidation is in
\* flight, be it a sell() call or the monitor's executeSell
C5_NoAcquisitionDuringLiquidation ==
  [][\A b \in Buyers :
       (cfg.oneTokenAtATime /\ buyers[b].pc = "pregate" /\ buyers'[b].pc \in CriticalPcs)
         => ~LiquidationInFlight]_vars

\* C6: with oneTokenAtATime sellExecutionCount is the number of sell() calls
\* in flight (so never negative, and 0 when none is)
C6_SellCount ==
  cfg.oneTokenAtATime =>
    sellExecutionCount = Cardinality({s \in Sellers : sellers[s].pc # "idle"})

\* one sell() has returned through the catch block while another is swapping
C6_Witness ==
  /\ cfg.oneTokenAtATime /\ sellExecutionCount = 1
  /\ \E s, t \in Sellers :
       /\ sellers[s].pc = "idle" /\ sellers[s].out = "throw"
       /\ sellers[t].pc = "swap"

\* C7: a second addPosition for a token id leaves the stored position as the
\* first call made it
C7_SecondOpenIsNoOp ==
  [][\A m \in Mints :
       (hasPosition(positions, m) /\ store'.op = "addPosition" /\ store'.mint = m)
         => positions' = positions]_vars

\* C8: no buy() is at a swap for a token id that has a position
C8_NoSwapOncePositionExists ==
  \A b \in Buyers : buyers[b].pc = "swap" => ~hasPosition(positions, buyers[b].mint)

\* C9: when executeSell ends, the watch entry of its token id is gone
C9_TriggerRemovesEntry ==
  [][\A l \in Loops :
       (loops[l].pc = "sell" /\ loops'[l] # loops[l])
         => IndexOf(sellConditions', Current(loops[l]).mint) = 0]_vars

\* C10: executeSell is entered at most once for the position of a token id
C10_LiquidatedOnce ==
  [][\A m \in Mints : EntersSellFor(m, loops') => ~attempted[m]]_vars

\* the activations of startMonitoring that have not returned
RunningLoops == {l \in Loops : loops[l].pc # "off"}

\* C11: at most one activation of startMonitoring is running at any time
C11_SingleLoop == Cardinality(RunningLoops) <= 1

\* in this state every evaluation whose TTL had elapsed at its currentTime is
\* in executeSell with reason ttl, and every other one asks for the price or
\* sells for take_profit or stop_loss
TtlDecides ==
  \A l \in Loops :
    /\ loops[l].pc = "sell" =>
         /\ loops[l].reason \in {"ttl", "take_profit", "stop_loss"}
         /\ loops[l].reason = "ttl"
              <=> TtlElapsed(Current(loops[l]), loops[l].currentTime)
    /\ loops[l].pc = "price" =>
         ~TtlElapsed(Current(loops[l]), loops[l].currentTime)

\* in this step loop l leaves executeSell and closes the position of its entry
ClosesPosition(l) ==
  /\ loops[l].pc = "sell" /\ loops'[l] # loops[l]
  /\ hasPosition(positions, Current(loops[l]).mint)
  /\ positions' # positions

\* C12: an evaluation whose TTL has elapsed at its currentTime triggers with
\* reason ttl, whatever the price; the sellReason recorded when the monitor
\* closes a position is the reason of that evaluation, so it is never
\* take_profit or stop_loss once the TTL had elapsed
C12_TtlFirst ==
  [][/\ TtlDecides /\ TtlDecides'
     /\ \A l \in Loops :
          ClosesPosition(l) =>
            LET mint == Current(loops[l]).mint
                elapsed == TtlElapsed(Current(loops[l]), loops[l].currentTime)
            IN /\ getPosition(positions', mint).sellReason = Some(loops[l].reason)
               /\ elapsed => getPosition(positions', mint).sellReason = Some("ttl")]_vars

\* a position whose last quote met take profit (the liquidation it triggered
\* failed) is closed after its TTL elapsed: the reason recorded is ttl
C12_Witness ==
  \E i \in 1..Len(positions) :
    /\ positions[i].status = "sold"
    /\ positions[i].sellReason = Some("ttl")
    /\ positions[i].currentPrice = Some(15)
    /\ Trigger(positions[i], 15) = "take_profit"

\* C13: when getCurrentPrice answers unavailable for an entry (whose TTL had
\* not elapsed), the step changes neither the positions nor the watch set,
\* enters executeSell for no token, and the loop goes on to the next entry of
\* its snapshot
C13_PriceUnavailableNoOp ==
  [][\A l \in Loops :
       MonitorPrice(l, 0) =>
         /\ ~TtlElapsed(Current(loops[l]), loops[l].currentTime)
         /\ positions' = positions
         /\ sellConditions' = sellConditions
         /\ loops'[l].pc = "sell" => loops'[l].idx = loops[l].idx + 1
         /\ loops'[l] = Evaluate(loops[l].conditions, loops[l].idx + 1, now)
         /\ \A m \in Mints : attempted'[m] /\ ~attempted[m] =>
              m # Current(loops[l]).mint]_vars

\* the only entry was evaluated in a run where quotes were to be had, the
\* loop sleeps, and the position is as addPosition made it: no price was
\* recorded, executeSell was not entered, the entry is still watched
C13_Witness ==
  /\ 15 \in env.quotes /\ calls.buy = 1 /\ Len(sellConditions) = 1
  /\ \E l \in Loops : loops[l].pc = "sleep"
  /\ LET m == sellConditions[1].mint
     IN /\ hasPosition(positions, m)
        /\ getPosition(positions, m).status = "active"
        /\ getPosition(positions, m).currentPrice = Undefined
        /\ ~attempted[m]

\* the slots of positions whose token id the step removes from the store
Evicted == {i \in 1..Len(positions) : ~hasPosition(positions', positions[i].mint)}

\* the slots of ps holding a position that is not active
ClosedSlots(ps) == {i \in 1..Len(ps) : ps[i].status # "active"}

\* C14: no call of addPosition, updatePosition or closePosition removes an
\* active position from the store, however full the store is
C14_ActiveNeverEvicted ==
  [][\A i \in 1..Len(positions) :
       positions[i].status = "active" => hasPosition(positions', positions[i].mint)]_vars

\* cleanupOldPositions has run (the store is well below its ceiling again)
\* and the oldest position of all, which is active, is still there
C14_Witness ==
  /\ store.op = "addPosition"
  /\ Len(positions) = maxPositions + 1 - cleanupBatch
  /\ positions[1].mint = Id(1)
  /\ positions[1].status = "active" /\ positions[1].buyTimestamp = 1

\* C15: an addPosition of a new token id to a store of maxPositions positions
\* of which at least cleanupBatch are closed removes exactly cleanupBatch
\* positions, all closed and none newer than a closed one it keeps, and
\* leaves every other position as it was; an addPosition after which the
\* store holds at most maxPositions positions removes nothing
C15_Eviction ==
  [][store'.op = "addPosition" =>
       LET grows == ~hasPosition(positions, store'.mint)
           closed == ClosedSlots(positions)
       IN /\ (grows /\ Len(positions) = maxPositions
                /\ Cardinality(closed) >= cleanupBatch) =>
               /\ Cardinality(Evicted) = cleanupBatch
               /\ Evicted \subseteq closed
               /\ \A i \in Evicted, j \in closed \ Evicted :
                    positions[i].buyTimestamp <= positions[j].buyTimestamp
               /\ \A j \in (1..Len(positions)) \ Evicted :
                    getPosition(positions', positions[j].mint) = positions[j]
               /\ hasPosition(positions', store'.mint)
               /\ Len(positions') = maxPositions + 1 - cleanupBatch
          /\ Len(positions) + (IF grows THEN 1 ELSE 0) <= maxPositions =>
               Evicted = {}]_vars

\* the 51st position was added to a store with eleven closed positions: ten
\* are gone, and the one kept is the closed position bought last, although it
\* sits in the second slot of the Map
C15_Witness ==
  /\ store = [op |-> "addPosition", mint |-> Id(maxPositions + 1)]
  /\ hasPosition(positions, Id(maxPositions + 1))
  /\ Len(positions) = maxPositions + 1 - cleanupBatch
  /\ positions[1].mint = Id(2) /\ positions[1].status = "sold"
  /\ positions[1].buyTimestamp = maxPositions + 1
  /\ positions[2].status = "active"

\* in this state every buy() and sell() waiting for this.swap() has made
\* fewer calls of it than its retry limit
WithinRetries ==
  /\ \A b \in Buyers : buyers[b].pc = "swap" => buyers[b].i < cfg.maxBuyRetries
  /\ \A s \in Sellers : sellers[s].pc = "swap" => sellers[s].i < cfg.maxSellRetries

\* C16: a buy() calls this.swap() at most maxBuyRetries times and a sell() at
\* most maxSellRetries times: the call in flight is call i + 1, i is below
\* the limit, and every further call adds one to i; after a confirmed swap the
\* buy() only waits for its alert and returns, and the sell() returns
C16_BoundedRetry ==
  [][/\ WithinRetries /\ WithinRetries'
     /\ \A b \in Buyers :
          /\ (buyers[b].pc = "swap" /\ buyers'[b].pc = "swap"
                /\ buyers'[b] # buyers[b]) => buyers'[b].i = buyers[b].i + 1
          /\ buyers[b].pc = "alert" => buyers'[b].pc \in {"alert", "idle"}
          /\ (buyers[b].pc = "alert" /\ buyers'[b].pc = "idle") =>
               buyers'[b].out = "bought"
     /\ \A s \in Sellers :
          /\ (sellers[s].pc = "swap" /\ sellers'[s].pc = "swap"
                /\ sellers'[s] # sellers[s]) => sellers'[s].i = sellers[s].i + 1
          /\ sellers'[s].out = "sold" => sellers'[s].pc = "idle"]_vars

\* a buy() is in its last allowed call of this.swap() and a sell() has
\* returned after a confirmed swap
C16_Witness ==
  /\ \E b \in Buyers : buyers[b].pc = "swap" /\ buyers[b].i = cfg.maxBuyRetries - 1
  /\ \E s \in Sellers : sellers[s].pc = "idle" /\ sellers[s].out = "sold"

\* C17: outside test mode, when a buy() returns after its last swap attempt
\* failed to confirm or threw, there is no position and no watch entry for
\* its token id
C17_FailedAcquisitionLeavesNothing ==
  [][~cfg.testMode =>
       \A b \in Buyers :
         (buyers[b].pc = "swap" /\ buyers'[b].pc = "idle"
            /\ buyers'[b].out = "exhausted") =>
           /\ ~hasPosition(positions', buyers[b].mint)
           /\ IndexOf(sellConditions', buyers[b].mint) = 0]_vars

\* in the state the step leads to, token id mint has an active position and
\* a watch entry made from it, not before it, and a monitoring loop runs
WatchedPosition(mint) ==
  /\ hasPosition(positions', mint)
  /\ getPosition(positions', mint).status = "active"
  /\ IndexOf(sellConditions', mint) # 0
  /\ LET condition == sellConditions'[IndexOf(sellConditions', mint)]
         position == getPosition(positions', mint)
     IN /\ condition.checkStartTime >= position.buyTimestamp
        /\ condition.position = [symbol |-> position.symbol,
                                 buyPrice |-> position.buyPrice,
                                 buyAmount |-> position.buyAmount]
  /\ isRunning'
  /\ \E l \in Loops : loops'[l].pc # "off"

C19_ConfirmedSellRecordsExit ==
  [][\A s \in Sellers :
       (sellers[s].pc = "swap" /\ sellers'[s].pc = "idle" /\ sellers'[s].out = "sold"
          /\ hasPosition(positions', sellers[s].mint)) =>
         LET position == getPosition(positions', sellers[s].mint)
         IN /\ position.status = "sold"
            /\ position.sellReason # Undefined
            /\ position.sellSignature # Undefined
            /\ position.sellTimestamp # Undefined]_vars

\* C20: when the evaluation of an entry is over, with whatever outcome
\* (price unavailable, refresh, liquidation done, thrown or without balance),
\* the loop evaluates the next entry of the same snapshot, or sleeps when the
\* entry was the last one; it returns only on waking from that sleep
C20_FailureIsolation ==
  [][\A l \in Loops :
       (loops[l].pc \in {"price", "sell"} /\ loops'[l] # loops[l]) =>
         \/ /\ loops'[l].pc = "sell" /\ loops[l].pc = "price"
            /\ loops'[l].idx = loops[l].idx
            /\ loops'[l].conditions = loops[l].conditions
         \/ /\ loops[l].idx < Len(loops[l].conditions)
            /\ loops'[l].pc \in {"price", "sell"}
            /\ loops'[l].idx = loops[l].idx + 1
            /\ loops'[l].conditions = loops[l].conditions
         \/ /\ loops[l].idx = Len(loops[l].conditions)
            /\ loops'[l].pc = "sleep"]_vars

\* the liquidation of the first entry of a snapshot was entered and failed
\* (its TTL had elapsed when the second entry was made, so before the
\* snapshot was taken; it is still watched and its position still active)
\* and the loop is evaluating the second entry
C20_Witness ==
  \E l \in Loops :
    /\ loops[l].pc \in {"price", "sell"} /\ loops[l].idx = 2
    /\ LET first == loops[l].conditions[1]
       IN /\ TtlElapsed(first, loops[l].conditions[2].checkStartTime)
          /\ attempted[first.mint]
          /\ IndexOf(sellConditions, first.mint) # 0
          /\ hasPosition(positions, first.mint)
          /\ getPosition(positions, first.mint).status = "active"

\* C21: a monitoring loop returns only on waking from its sleep, and only when
\* it finds the watch set empty or isRunning false, which a stop() must have
\* requested if the watch set is not empty; when it has returned isRunning
\* is false
C21_ExitsOnlyWhenIdle ==
  [][\A l \in Loops :
       (loops[l].pc # "off" /\ loops'[l].pc = "off") =>
         /\ loops[l].pc = "sleep"
         /\ sellConditions = <<>> \/ ~isRunning
         /\ sellConditions # <<>> => stops > 0
         /\ ~isRunning']_vars

\* no stop() was requested; the monitor closed a position, found the watch
\* set empty on waking and returned
C21_Witness ==
  /\ stops = 0 /\ ~isRunning /\ sellConditions = <<>>
  /\ \A l \in Loops : loops[l].pc = "off"
  /\ \E i \in 1..Len(positions) : positions[i].status = "sold"

\* C22: once stop() has emptied the watch set and cleared isRunning, and
\* nothing has been watched since, a loop that finishes the evaluation it was
\* in does not go on to another entry of its snapshot, and so enters no
\* further liquidation
C22_StopEndsCycle ==
  [][\A l \in Loops :
       (stops > 0 /\ ~isRunning /\ sellConditions = <<>>
          /\ loops[l].pc \in {"price", "sell"} /\ loops'[l] # loops[l]) =>
         /\ loops'[l].idx # loops[l].idx + 1
         /\ ~(loops'[l].pc = "sell" /\ loops'[l].idx # loops[l].idx)]_vars

\* C23: every watch entry is for a token id whose position is in the store
\* and active, and no token id with a closed position is watched
C23_CoTerminate ==
  /\ \A i \in 1..Len(sellConditions) :
       /\ hasPosition(positions, sellConditions[i].mint)
       /\ getPosition(positions, sellConditions[i].mint).status = "active"
  /\ \A i \in 1..Len(positions) :
       positions[i].status = "sold" => IndexOf(sellConditions, positions[i].mint) = 0

\* the monitor has closed one position and removed its entry while the
\* other position is active and watched
C23_Witness ==
  /\ Len(sellConditions) = 1
  /\ \E i, j \in 1..Len(positions) :
       /\ positions[i].status = "sold"
       /\ IndexOf(sellConditions, positions[i].mint) = 0
       /\ positions[j].status = "active"
       /\ IndexOf(sellConditions, positions[j].mint) # 0

\* C24: as long as no global stop was requested, every token id with an
\* active position is in the watch set, whichever way the position was opened
C24_ActiveIsWatched ==
  \A i \in 1..Len(positions) :
    positions[i].status = "active" =>
      stops > 0 \/ IndexOf(sellConditions, positions[i].mint) # 0

\* C25: closePosition on a token id whose position is already closed, or on
\* a token id that is not in the store, leaves the store as it was
C25_SecondCloseIsNoOp ==
  [][\A mint \in Mints, sellReason \in Reasons :
       (ClosePositionCall(mint, sellReason)
          /\ (hasPosition(positions, mint) =>
                getPosition(positions, mint).status = "sold")) =>
         positions' = positions]_vars

\* the quotient kept as the pair <<numerator, denominator>> is the number n
PercentIs(pair, n) == pair[2] # 0 /\ pair[1] = n * pair[2]

\* C28: updatePosition on a stored token id sets pnl to currentValue minus
\* buyPrice times quantity and pnlPercent to pnl over that product times 100
\* (+50 for a price of 1.5 and -30 for a price of 0.7 on a buy price of 1),
\* leaves every other field and every other position as they were, and
\* changes nothing when the token id is not in the store
C28_Refresh ==
  [][\A mint \in Mints, currentPrice \in Prices :
       UpdatePositionCall(mint, currentPrice) =>
         IF ~hasPosition(positions, mint) THEN positions' = positions
         ELSE LET i == IndexOf(positions, mint)
                  p == positions[i]
                  q == positions'[i]
                  cost == p.buyPrice * p.buyAmount
              IN /\ Len(positions') = Len(positions)
                 /\ \A j \in 1..Len(positions) : j # i => positions'[j] = positions[j]
                 /\ q.currentValue = Some(currentPrice * p.buyAmount)
                 /\ q.pnl = Some(q.currentValue[1] - cost)
                 /\ q.pnlPercent = Some(<<q.pnl[1] * 100, cost>>)
                 /\ (p.buyPrice = 10 /\ currentPrice = 15) => PercentIs(q.pnlPercent[1], 50)
                 /\ (p.buyPrice = 10 /\ currentPrice = 7) => PercentIs(q.pnlPercent[1], -30)
                 /\ q = [p EXCEPT !.currentPrice = q.currentPrice,
                                  !.currentValue = q.currentValue,
                                  !.pnl = q.pnl, !.pnlPercent = q.pnlPercent]]_vars

\* a position bought at 1 has just been refreshed at 0.7 and shows -30 per
\* cent, next to a position that was never refreshed
C28_Witness ==
  /\ store.op = "updatePosition"
  /\ hasPosition(positions, store.mint)
  /\ LET p == getPosition(positions, store.mint)
     IN /\ p.buyPrice = 10 /\ p.currentPrice = Some(7)
        /\ p.pnl = Some(-300)
        /\ PercentIs(p.pnlPercent[1], -30)
  /\ \E i \in 1..Len(positions) :
       positions[i].mint # store.mint /\ positions[i].pnl = Undefined

\* C26: without the snipe list a buy() reaches its first swap only from a
\* filter round that made poolFilters.execute return true in that same call;
\* with the snipe list no filter round is ever run, a buy() whose token is
\* not on the list goes no further than the list check, and the first swap
\* follows the market lookup directly
C26_AdmissionGate ==
  /\ [](cfg.useSnipeList =>
         \A b \in Buyers : buyers[b].pc \notin {"filter", "fsleep"})
  /\ [][\A b \in Buyers :
          /\ (buyers[b].pc # "swap" /\ buyers'[b].pc = "swap") =>
               IF cfg.useSnipeList
                 THEN buyers[b].pc = "market"
               ELSE /\ buyers[b].pc = "filter"
                    /\ BuyFilter(b, TRUE)
                    /\ RoundEnd(cfg, buyers[b].consecutiveMatches,
                                buyers[b].attempt, TRUE).next = "true"
          /\ (cfg.useSnipeList /\ buyers[b].pc = "pregate"
                /\ buyers'[b].pc \notin {"pregate", "idle"}) =>
               BuyGate(b, TRUE, TRUE)
          /\ (cfg.useSnipeList /\ BuyGate(b, TRUE, FALSE)) =>
               buyers'[b].pc = "idle" /\ buyers'[b].out = "snipe"]_vars

\* without the snipe list, a buy() is in its first swap after the filters
\* failed one round and passed the next
C26_Witness ==
  /\ ~cfg.useSnipeList
  /\ \E b \in Buyers :
       buyers[b].pc = "swap" /\ buyers[b].i = 0 /\ buyers[b].attempt = 1

\* the stage's execute has returned to PoolFilters.execute
Returned == exec.pc \in {"returned", "round"}

\* C27 as stated: whenever a call of a stage to its upstream service timed
\* out, threw or found nothing, the stage returns a fail result
C27_FailureFailsRound ==
  (Returned /\ exec.failed) => exec.result = "fail"

\* C27: no stage throws into PoolFilters.execute; RouteGate and OnChain
\* return fail when an upstream call times out, throws or finds no account;
\* DexScreener answers a not-found or failed request by sleeping for another
\* poll, and returns fail only once its maximum wait has elapsed; a round
\* whose stage returned fail resets the counter and is followed by the sleep
\* before the next round, or by the end of the loop after the last round
C27_FailureIsContained ==
  /\ [](exec.result # "throw" /\ exec.next # "aborted")
  /\ []((exec.kind \in {"RouteGate", "OnChain"} /\ exec.failed) =>
          exec.result = "fail")
  /\ []((exec.kind = "DexScreener" /\ exec.result = "fail") =>
          exec.elapsed >= exec.input.maxWaitTime)
  /\ [][(exec.kind = "DexScreener" /\ exec.pc = "poll" /\ exec' # exec
           /\ exec'.answer.kind \in {"notfound", "error"}) =>
          exec'.pc = "sleep" /\ exec'.result = "none"]_vars
  /\ [][(exec.pc = "returned" /\ exec'.pc = "round" /\ exec.result = "fail") =>
          /\ exec'.consecutiveMatches = 0
          /\ exec'.next = IF exec.attempt < MaxAttempts(cfg) - 1
                            THEN "sleep" ELSE "false"]_vars

\* the Jupiter request of RouteGate timed out in the second round and
\* PoolFilters.execute goes on to the sleep before the third
C27_Witness ==
  /\ exec.kind = "RouteGate" /\ exec.pc = "round"
  /\ exec.answer.kind = "timeout" /\ exec.failed
  /\ exec.result = "fail"
  /\ exec.attempt = 1 /\ exec.consecutiveMatches = 0 /\ exec.next = "sleep"

\* C29: DexScreenerFilter.execute always returns: a request whose answer
\* meets the requirements returns pass at once, any other answer (no pairs,
\* no logo, no socials, not found, error) leads to the sleep and another
\* turn of the loop, the loop returns fail as soon as it finds the maximum
\* wait elapsed, and fail is returned in no other way
C29_Terminates ==
  /\ (exec.kind = "DexScreener") ~> Returned
  /\ [][(exec.kind = "DexScreener" /\ exec.pc = "poll" /\ exec' # exec) =>
          IF DexScreenerMeets(exec.input, exec'.answer)
            THEN exec'.pc = "returned" /\ exec'.result = "pass"
          ELSE exec'.pc = "sleep" /\ exec'.result = "none"]_vars
  /\ [][(exec.kind = "DexScreener" /\ exec.pc = "sleep" /\ exec' # exec) =>
          IF exec'.elapsed < exec.input.maxWaitTime
            THEN exec'.pc = "poll" /\ exec'.result = "none"
          ELSE exec'.pc = "returned" /\ exec'.result = "fail"]_vars
  /\ []((exec.kind = "DexScreener" /\ exec.result = "fail") =>
          exec.elapsed >= exec.input.maxWaitTime)
  /\ [](exec.kind = "DexScreener" =>
          exec.polls <= Ceil(exec.input.maxWaitTime, exec.input.checkInterval))

\* the filter has returned fail after three requests, one of which failed
C29_Witness ==
  /\ exec.kind = "DexScreener" /\ exec.pc = "returned"
  /\ exec.result = "fail" /\ exec.polls = 3 /\ exec.failed

\* C30: with 0 < MIN_POOL_SIZE <= MAX_POOL_SIZE, checkPoolSize passes exactly
\* the pool sizes between the two bounds, compared as numbers
C30_NumericBounds ==
  (exec.kind = "checkPoolSize" /\ exec.pc = "returned"
     /\ 0 < exec.answer.minSize /\ exec.answer.minSize <= exec.answer.maxSize) =>
    (exec.result = "pass" <=>
       /\ exec.answer.minSize <= exec.answer.poolSize
       /\ exec.answer.poolSize <= exec.answer.maxSize)

\* C31: PoolFilters.execute runs at most maxAttempts rounds and returns; the
\* round whose last stage passes with the counter reaching
\* FILTER_REPEAT_COUNT returns true at once, with no further round or sleep;
\* false is returned only when round maxAttempts is over
C31_BoundedRounds ==
  /\ <>(filt.pc = "done")
  /\ [](filt.rounds <= MaxAttempts(cfg))
  /\ [](filt.pc = "done" =>
          /\ filt.result = Some(FALSE) => filt.rounds = MaxAttempts(cfg)
          /\ filt.rounds > 0 => filt.slept = filt.rounds - 1)
  /\ [][(filt.pc = "stage" /\ filt' # filt /\ StageOk(filt)
           /\ filt.stage = Len(Filters(cfg))
           /\ filt.consecutiveMatches + 1 >= cfg.repeatCount) =>
          /\ filt'.pc = "done" /\ filt'.result = Some(TRUE)
          /\ filt'.rounds = filt.rounds /\ filt'.slept = filt.slept]_vars
  /\ [][(filt.pc # "done" /\ filt'.pc = "done" /\ filt'.result = Some(FALSE)) =>
          filt.attempt >= MaxAttempts(cfg) - 1]_vars

\* execute has returned true after its second round although two more
\* rounds were left
C31_Witness ==
  /\ filt.pc = "done" /\ filt.result = Some(TRUE)
  /\ cfg.repeatCount = 2 /\ filt.rounds = 2 /\ MaxAttempts(cfg) = 4

\* the place of a stage in the order RouteGate, OnChain, DexScreener
StageRank(name) ==
  IF name = "RouteGate" THEN 1 ELSE IF name = "OnChain" THEN 2 ELSE 3

\* C32: the stages of a round are the enabled ones in the order RouteGate,
\* OnChain, DexScreener; a round starts with the first stage, goes from a
\* stage that passed to the next one and to no other, ends with the stage
\* that fails, and so never evaluates a stage behind the failing one
C32_StageOrder ==
  /\ [](LET stages == Filters(cfg)
        IN /\ \A i, j \in 1..Len(stages) :
                i < j => StageRank(stages[i]) < StageRank(stages[j])
           /\ ("RouteGate" \in {stages[i] : i \in 1..Len(stages)}) = cfg.enableRouteGate
           /\ ("DexScreener" \in {stages[i] : i \in 1..Len(stages)}) = cfg.enableDexScreener
           /\ "OnChain" \in {stages[i] : i \in 1..Len(stages)})
  /\ [](filt.pc = "stage" =>
          /\ filt.stage \in 1..Len(Filters(cfg))
          /\ filt.script[filt.attempt + 1] # 0 =>
               filt.stage <= filt.script[filt.attempt + 1])
  /\ [][(filt.pc # "stage" /\ filt'.pc = "stage") => filt'.stage = 1]_vars
  /\ [][(filt.pc = "stage" /\ filt' # filt) =>
          IF StageOk(filt) /\ filt.stage < Len(Filters(cfg))
            THEN /\ filt'.pc = "stage" /\ filt'.stage = filt.stage + 1
                 /\ filt'.attempt = filt.attempt
          ELSE filt'.pc \in {"sleep", "done"}]_vars

\* the first round ended at its failing first stage, and the second round
\* has passed its first stage and is at the second
C32_Witness ==
  /\ filt.pc = "stage" /\ filt.attempt = 1 /\ filt.stage = 2
  /\ filt.script[1] = 1 /\ Len(Filters(cfg)) = 3

\* loop l has entered executeSell for the entry it was evaluating, with reason
SellsFor(l, reason) ==
  /\ loops'[l].pc = "sell"
  /\ loops'[l].idx = loops[l].idx
  /\ loops'[l].reason = reason

\* C33: when getCurrentPrice answers with a price for an entry whose TTL has
\* not elapsed, executeSell is entered with take_profit iff pnlPercent >=
\* TAKE_PROFIT, with stop_loss iff pnlPercent < TAKE_PROFIT and pnlPercent <=
\* -STOP_LOSS, and otherwise executeSell is not entered for the entry and the
\* watch set is left as it was
C33_SellDecision ==
  [][\A l \in Loops, quote \in Prices :
       MonitorPrice(l, quote) =>
         LET position == Current(loops[l]).position
             buyValue == position.buyPrice * position.buyAmount
             pnl == quote * position.buyAmount - buyValue
             profit == pnl * 100 >= TAKE_PROFIT * buyValue
             loss == pnl * 100 <= (0 - STOP_LOSS) * buyValue
         IN /\ ~TtlElapsed(Current(loops[l]), loops[l].currentTime)
            /\ SellsFor(l, "take_profit") <=> profit
            /\ SellsFor(l, "stop_loss") <=> (~profit /\ loss)
            /\ (~profit /\ ~loss) =>
                 /\ ~(loops'[l].pc = "sell" /\ loops'[l].idx = loops[l].idx)
                 /\ sellConditions' = sellConditions]_vars

\* the monitor is in executeSell for a stop loss hit exactly at the threshold
C33_Witness ==
  \E l \in Loops :
    /\ loops[l].pc = "sell" /\ loops[l].reason = "stop_loss"
    /\ LET position == getPosition(positions, Current(loops[l]).mint)
       IN position.currentPrice = Some(7) /\ position.buyPrice = BuyPrice

\* C34: whenever getCurrentPrice answers with a price, the position of the
\* entry carries that price and the value derived from it in the very step
\* that decides on the triggers, whether executeSell is entered or not, and
\* no other position changes
C34_PriceReadIsStored ==
  [][\A l \in Loops, quote \in Prices :
       MonitorPrice(l, quote) =>
         LET condition == Current(loops[l])
             mint == condition.mint
         IN /\ positions' = updatePosition(positions, mint, quote,
                                           quote * condition.position.buyAmount)
            /\ hasPosition(positions, mint) =>
                 /\ getPosition(positions', mint).currentPrice = Some(quote)
                 /\ getPosition(positions', mint).currentValue =
                      Some(quote * condition.position.buyAmount)
            /\ \A i \in 1..Len(positions) :
                 positions[i].mint # mint => positions'[i] = positions[i]]_vars

\* the monitor is in executeSell for a take profit and the position shows
\* the price that triggered it
C34_Witness ==
  \E l \in Loops :
    /\ loops[l].pc = "sell" /\ loops[l].reason = "take_profit"
    /\ hasPosition(positions, Current(loops[l]).mint)
    /\ LET position == getPosition(positions, Current(loops[l]).mint)
       IN /\ position.status = "active"
          /\ position.currentPrice = Some(15)
          /\ position.currentValue = Some(15 * BuyAmount)

\* C35: a sell() in flight can always take its next step, whoever holds the
\* mutex, its steps leave the mutex and its queue alone, and it returns even
\* if the buy() holding the mutex never does
C35_SellNeverWaits ==
  /\ [](\A s \in Sellers : sellers[s].pc # "idle" => ENABLED SellerStep(s))
  /\ [][\A s \in Sellers :
          sellers'[s] # sellers[s] =>
            mutexLocked' = mutexLocked /\ mutexQueue' = mutexQueue]_vars
  /\ \A s \in Sellers : (sellers[s].pc # "idle") ~> (sellers[s].pc = "idle")

\* the only buy() of the run holds the mutex, and a sell() that started
\* after it took the mutex is in its second swap attempt
C35_Witness ==
  /\ env.buys = 1 /\ cfg.oneTokenAtATime /\ mutexLocked
  /\ \E b \in Buyers : buyers[b].acquired = 1 /\ buyers[b].pc \in CriticalPcs
  /\ \E s \in Sellers : sellers[s].pc = "swap" /\ sellers[s].i = 1

\* history: the loop has just begun checkSellCondition for an entry of its
\* snapshot
BeginsEvaluation(before, after) ==
  /\ after.pc \in {"price", "sell"}
  /\ before.pc \notin {"price", "sell"} \/ before.idx # after.idx

\* C36 (no idle polling): a monitoring loop begins the evaluation of an entry
\* only while the watch set holds at least one entry
C36_NoEvaluationWhileEmpty ==
  [][\A l \in Loops :
       BeginsEvaluation(loops[l], loops'[l]) => sellConditions' # <<>>]_vars

\* C37: a buy() that is waiting for alertManager.sendAlert to answer holds
\* no lock: whatever it acquired it has released
C37_AlertNotAwaited ==
  \A b \in Buyers :
    buyers[b].pc \in {"alert", "erralert"} =>
      buyers[b].released = buyers[b].acquired

\* C38: in test mode no buy() ever waits for this.swap(); a buy() that
\* returns from the test-mode branch leaves an active position for its token
\* id with the simulated price and signature, and has released the mutex as
\* often as it acquired it
C38_TestModeSimulates ==
  /\ [](cfg.testMode => \A b \in Buyers : buyers[b].pc # "swap")
  /\ [][\A b \in Buyers :
          (cfg.testMode /\ buyers[b].pc \in CriticalPcs /\ buyers'[b].pc = "idle"
             /\ buyers'[b].out \notin {"filtered", "failed"}) =>
            /\ buyers'[b].out = "test"
            /\ buyers'[b].released = buyers'[b].acquired
            /\ cfg.oneTokenAtATime => buyers'[b].acquired = 1
            /\ hasPosition(positions', buyers[b].mint)
            /\ LET position == getPosition(positions', buyers[b].mint)
               IN /\ position.status = "active"
                  /\ position.symbol = "TEST"
                  /\ position.buyPrice = 1
                  /\ position.buySignature = 0]_vars
  /\ []((cfg.testMode /\ \A b \in Buyers : buyers[b].pc = "idle") => ~mutexLocked)

\* a test-mode buy() has returned with its position opened and the mutex
\* given back
C38_Witness ==
  /\ cfg.testMode /\ cfg.oneTokenAtATime /\ ~mutexLocked
  /\ \E b \in Buyers :
       /\ buyers[b].pc = "idle" /\ buyers[b].out = "test"
       /\ buyers[b].acquired = 1 /\ buyers[b].released = 1
       /\ hasPosition(positions, buyers[b].mint)
       /\ getPosition(positions, buyers[b].mint).symbol = "TEST"
       /\ getPosition(positions, buyers[b].mint).status = "active"

\* the fields updatePosition writes
PriceFields(p) == <<p.currentPrice, p.currentValue, p.pnl, p.pnlPercent>>

\* C39: an evaluation that begins with the TTL elapsed goes into executeSell
\* with reason ttl without asking getCurrentPrice, and when its executeSell
\* is over the price fields of the position are as they were
C39_TtlNeedsNoPrice ==
  [][\A l \in Loops :
       /\ (BeginsEvaluation(loops[l], loops'[l])
             /\ TtlElapsed(Current(loops'[l]), loops'[l].currentTime)) =>
            loops'[l].pc = "sell" /\ loops'[l].reason = "ttl"
       /\ (loops[l].pc = "sell" /\ loops[l].reason = "ttl" /\ loops'[l] # loops[l]
             /\ hasPosition(positions, Current(loops[l]).mint)) =>
            /\ hasPosition(positions', Current(loops[l]).mint)
            /\ PriceFields(getPosition(positions', Current(loops[l]).mint)) =
                 PriceFields(getPosition(positions, Current(loops[l]).mint))]_vars

\* a position was closed for its TTL without ever having been priced
C39_Witness ==
  \E i \in 1..Len(positions) :
    /\ positions[i].status = "sold"
    /\ positions[i].sellReason = Some("ttl")
    /\ PriceFields(positions[i]) = <<Undefined, Undefined, Undefined, Undefined>>

\* C40, the literal statement: the zero-balance branch of executeSell removes
\* the watch entry and leaves every position as it was, and no evaluation
\* ever begins afterwards for that token id
C40_NeverEvaluatedAgain ==
  [][\A l \in Loops :
       /\ MonitorSell(l, "zero") =>
            /\ IndexOf(sellConditions', Current(loops[l]).mint) = 0
            /\ positions' = positions
       /\ BeginsEvaluation(loops[l], loops'[l]) =>
            Current(loops'[l]).mint \notin zeroed]_vars

============================================================================
